---- MODULE Spec2Model ----
(***************************************************************************)
(* Model of the provider installer of sourceplane/thin                     *)
(* (internal/runtime/oci.go, PullProviderOCI and its helpers).             *)
(*                                                                         *)
(* One behaviour is one call of PullProviderOCI: the coordinator           *)
(* goroutine (the caller), the two download workers, the goroutine that    *)
(* fills the jobs channel and the goroutine that closes the results        *)
(* channel.  A layer is identified by its index in manifest.Layers, as     *)
(* the code does with &manifest.Layers[i].                                 *)
(***************************************************************************)
EXTENDS Integers, Sequences, FiniteSets, TLC

\* ------------------------------------------------------------------------
\* Bounds
\* ------------------------------------------------------------------------
MaxLayers == 4
MaxPipelineLayers == 3
MaxTasks == 3
MaxRuns == 2
MaxReportLayers == 2
MaxBytes == 3
MaxRepoSegments == 2

\* ------------------------------------------------------------------------
\* Media types (oci.go:119-132)
\* ------------------------------------------------------------------------
EmptyMediaType == "application/vnd.oci.empty.v1+json"
ProviderMediaType == "application/vnd.sourceplane.provider.v1"
AssetsMediaType == "application/vnd.sourceplane.assets.v1"
\* runtime.GOOS-runtime.GOARCH of the running build
currentPlatform == "linux-amd64"
otherPlatform == "darwin-arm64"
BinMediaType(platform) ==
    CASE platform = "linux-amd64" -> "application/vnd.sourceplane.bin.linux-amd64"
      [] platform = "darwin-arm64" -> "application/vnd.sourceplane.bin.darwin-arm64"
binaryMediaType == BinMediaType(currentPlatform)
GenericMediaType == "application/vnd.oras.v1"
\* strings.HasPrefix(mt, "application/vnd.sourceplane.bin.")
HasBinPrefix(mt) == mt \in {BinMediaType(currentPlatform), BinMediaType(otherPlatform)}

MediaTypes ==
    {EmptyMediaType, ProviderMediaType, AssetsMediaType,
     BinMediaType(currentPlatform), BinMediaType(otherPlatform), GenericMediaType}

SeqsUpTo(S, n) == UNION {[1..k -> S] : k \in 0..n}
Manifests == SeqsUpTo(MediaTypes, MaxLayers)
PipelineManifests == SeqsUpTo(MediaTypes, MaxPipelineLayers)
\* Layer k of the README's platform-specific artifact (provider, assets,
\* then one binary per platform), as an artifact that has a binary for the
\* current platform and as one that has none.
ReadmeLayer(withBinary, k) ==
    IF k = 1 THEN ProviderMediaType
    ELSE IF k = 2 THEN AssetsMediaType
    ELSE IF k = 3 /\ withBinary THEN binaryMediaType
    ELSE BinMediaType(otherPlatform)
\* the README's artifact cut after its first n layers
SchedulerManifests ==
    {[k \in 1..n |-> ReadmeLayer(withBinary, k)] :
        n \in 0..MaxTasks, withBinary \in BOOLEAN}

\* ------------------------------------------------------------------------
\* Layer classification (oci.go:121-170)
\* ------------------------------------------------------------------------
\* The switch of the loop body: the roles after looking at layer i.
\* roles = [provider, assets, binary], 0 standing for a nil pointer.
ClassifyLayer_PrefixMatch(layers, i, roles) ==
    CASE layers[i] = EmptyMediaType -> roles
      [] layers[i] = ProviderMediaType -> [roles EXCEPT !.provider = i]
      [] layers[i] = AssetsMediaType -> [roles EXCEPT !.assets = i]
      [] HasBinPrefix(layers[i]) -> [roles EXCEPT !.binary = i]
      [] OTHER -> roles

ClassifyLayer(layers, i, roles) ==
    CASE layers[i] = EmptyMediaType -> roles
      [] layers[i] = ProviderMediaType -> [roles EXCEPT !.provider = i]
      [] layers[i] = AssetsMediaType -> [roles EXCEPT !.assets = i]
      [] layers[i] = binaryMediaType -> [roles EXCEPT !.binary = i]
      [] OTHER -> roles

RECURSIVE ClassifyLoop(_, _, _)
ClassifyLoop(layers, i, roles) ==
    IF i > Len(layers) THEN roles
    ELSE ClassifyLoop(layers, i + 1, ClassifyLayer(layers, i, roles))

NoRoles == [provider |-> 0, assets |-> 0, binary |-> 0]

RoleLayers_BinaryFirst(roles) ==
    (IF roles.binary # 0 THEN <<roles.binary>> ELSE <<>>)
    \o (IF roles.provider # 0 THEN <<roles.provider>> ELSE <<>>)
    \o (IF roles.assets # 0 THEN <<roles.assets>> ELSE <<>>)

\* "Build layers to download": provider, assets, binary, each if found.
RoleLayers(roles) ==
    (IF roles.provider # 0 THEN <<roles.provider>> ELSE <<>>)
    \o (IF roles.assets # 0 THEN <<roles.assets>> ELSE <<>>)
    \o (IF roles.binary # 0 THEN <<roles.binary>> ELSE <<>>)

\* The fallback loop: every layer that is not the empty placeholder.
RECURSIVE AllNonEmpty(_, _)
AllNonEmpty(layers, i) ==
    IF i > Len(layers) THEN <<>>
    ELSE (IF layers[i] # EmptyMediaType THEN <<i>> ELSE <<>>)
         \o AllNonEmpty(layers, i + 1)

Classify_FallbackFirst(layers) ==
    LET roles == ClassifyLoop(layers, 1, NoRoles)
        picked == RoleLayers(roles)
    IN  IF roles.binary = 0 /\ Len(AllNonEmpty(layers, 1)) > 0
          THEN [err |-> "", roles |-> roles,
                layersToDownload |-> AllNonEmpty(layers, 1), legacyFallback |-> TRUE]
        ELSE IF Len(picked) = 0
          THEN [err |-> "no compatible provider layers", roles |-> roles,
                layersToDownload |-> <<>>, legacyFallback |-> FALSE]
        ELSE IF roles.provider = 0 /\ roles.assets = 0
          THEN [err |-> "provider manifest layer not found", roles |-> roles,
                layersToDownload |-> <<>>, legacyFallback |-> FALSE]
        ELSE [err |-> "", roles |-> roles,
              layersToDownload |-> picked, legacyFallback |-> FALSE]

\* The whole classification pass: error, or the download set and the flag.
Classify(layers) ==
    LET roles == ClassifyLoop(layers, 1, NoRoles)
        picked == RoleLayers(roles)
    IN  IF Len(picked) = 0
          THEN [err |-> "no compatible provider layers", roles |-> roles,
                layersToDownload |-> <<>>, legacyFallback |-> FALSE]
        ELSE IF roles.provider = 0 /\ roles.assets = 0
          THEN [err |-> "provider manifest layer not found", roles |-> roles,
                layersToDownload |-> <<>>, legacyFallback |-> FALSE]
        ELSE IF roles.binary = 0
          THEN [err |-> "", roles |-> roles,
                layersToDownload |-> AllNonEmpty(layers, 1), legacyFallback |-> TRUE]
        ELSE [err |-> "", roles |-> roles,
              layersToDownload |-> picked, legacyFallback |-> FALSE]

\* ------------------------------------------------------------------------
\* The installation root (providerBaseDir) as a map from relative paths
\* to entries.  A path is the sequence of its components; <<>> is the
\* root itself.
\* ------------------------------------------------------------------------
Paths ==
    {<<>>, <<"thin.provider.yaml">>,
     <<"bin">>, <<"bin", "entrypoint">>, <<"bin", "thin">>, <<"bin", "provider">>,
     <<"bin", "linux">>, <<"bin", "linux", "amd64">>,
     <<"bin", "linux", "amd64", "entrypoint">>,
     <<"bin", "linux", "amd64", "thin">>,
     <<"bin", "linux", "amd64", "provider">>,
     <<"assets">>, <<"assets", "schema.json">>,
     <<"oci">>, <<"oci", "bin">>, <<"oci", "bin", "entrypoint">>,
     <<"oci", "assets">>, <<"oci", "assets", "schema.json">>,
     <<"oci", "thin.provider.yaml">>}

\* The file names of Paths in the order os.ReadDir lists them (by name).
NameOrder ==
    <<"amd64", "assets", "bin", "entrypoint", "linux", "oci", "provider",
      "schema.json", "thin", "thin.provider.yaml">>

\* The bytes of a file are named by where they come from: <<"layer", i>>
\* for the blob of layer i, <<"config", 0>> for the config blob.
NoBytes == <<"none", 0>>
NoEnt == [t |-> "none", mode |-> 0, data |-> NoBytes]
DirEnt(mode) == [t |-> "dir", mode |-> mode, data |-> NoBytes]
FileEnt(mode, data) == [t |-> "file", mode |-> mode, data |-> data]

Mode0755 == 493
Mode0644 == 420

Parent(p) == SubSeq(p, 1, Len(p) - 1)

\* os.MkdirAll(path, perm): nil if path is a directory, an error if it or
\* one of its parents is a file, otherwise the missing directories are
\* created.  The parent of the root (the providers home) is taken to exist.
RECURSIVE MkdirAll(_, _, _)
MkdirAll(f, p, perm) ==
    IF f[p].t = "dir" THEN [err |-> FALSE, fs |-> f]
    ELSE IF f[p].t = "file" THEN [err |-> TRUE, fs |-> f]
    ELSE IF Len(p) = 0 THEN [err |-> FALSE, fs |-> [f EXCEPT ![p] = DirEnt(perm)]]
    ELSE LET up == MkdirAll(f, Parent(p), perm)
         IN  IF up.err THEN up
             ELSE [err |-> FALSE, fs |-> [up.fs EXCEPT ![p] = DirEnt(perm)]]

WriteFile_Append(f, p, data, perm) ==
    IF Len(p) = 0 \/ f[Parent(p)].t # "dir" \/ f[p].t = "dir"
      THEN [err |-> TRUE, fs |-> f]
    ELSE IF f[p].t = "file"
      THEN [err |-> FALSE,
            fs |-> [f EXCEPT ![p] = FileEnt(f[p].mode, <<"appended", data[2]>>)]]
    ELSE [err |-> FALSE, fs |-> [f EXCEPT ![p] = FileEnt(perm, data)]]

\* os.WriteFile(name, data, perm): O_WRONLY|O_CREATE|O_TRUNC; perm is used
\* only when the file is created.
WriteFile(f, p, data, perm) ==
    IF Len(p) = 0 \/ f[Parent(p)].t # "dir" \/ f[p].t = "dir"
      THEN [err |-> TRUE, fs |-> f]
    ELSE IF f[p].t = "file"
      THEN [err |-> FALSE, fs |-> [f EXCEPT ![p] = FileEnt(f[p].mode, data)]]
    ELSE [err |-> FALSE, fs |-> [f EXCEPT ![p] = FileEnt(perm, data)]]

\* FileMode.Perm(): the nine permission bits of a mode
Perm(mode) == mode % 512

\* os.Chmod(name, mode): syscallMode(mode) keeps mode.Perm() and the
\* os.ModeSetuid, os.ModeSetgid and os.ModeSticky flags, which a tar
\* header's mode cast to os.FileMode never carries.
Chmod(f, p, mode) ==
    IF f[p].t = "none" THEN [err |-> TRUE, fs |-> f]
    ELSE [err |-> FALSE, fs |-> [f EXCEPT ![p].mode = Perm(mode)]]

\* ------------------------------------------------------------------------
\* Layer payloads: what the sniffing of extractLayerContent looks at, and
\* the entries of the archive when the payload is one.
\*   gzip   the payload starts with 0x1f 0x8b
\*   ustar  len >= 512 and "ustar" at offset 257
\*   len    len(layerData)
\*   first  layerData[0] (0 when the payload is empty)
\*   entries, bad  the tar entries that tr.Next() yields before io.EOF
\*          (bad = FALSE) or before a header error (bad = TRUE)
\* ------------------------------------------------------------------------
LargeBinaryThreshold == 4000000

TarDir(name) == [typeflag |-> "dir", name |-> name, mode |-> Mode0755, data |-> NoBytes]
TarReg(name, mode, data) == [typeflag |-> "reg", name |-> name, mode |-> mode, data |-> data]

\* The blob the registry holds for layer i of the artifact, by the layer's
\* media type, in the formats of the README's artifact layout: the provider
\* manifest is a YAML text, the assets are a gzipped tar, a platform binary
\* is a raw executable above the threshold, and a layer of the legacy
\* layout is a tar with the "oci/" prefix.  The bytes are tagged with the
\* layer's index, so that the bytes of two layers are never equal.
Blob(mt, i) ==
    CASE mt = ProviderMediaType ->
           [gzip |-> FALSE, ustar |-> FALSE, len |-> 200, first |-> 110,
            entries |-> <<>>, bad |-> FALSE, data |-> <<"layer", i>>]
      [] mt = AssetsMediaType ->
           [gzip |-> TRUE, ustar |-> FALSE, len |-> 2048, first |-> 31,
            entries |-> <<TarDir(<<"assets">>),
                          TarReg(<<"assets", "schema.json">>, Mode0644, <<"layer", i>>)>>,
            bad |-> FALSE, data |-> <<"layer", i>>]
      [] HasBinPrefix(mt) ->
           [gzip |-> FALSE, ustar |-> FALSE, len |-> 5000000, first |-> 127,
            entries |-> <<>>, bad |-> FALSE, data |-> <<"layer", i>>]
      [] mt = GenericMediaType ->
           [gzip |-> FALSE, ustar |-> TRUE, len |-> 10240, first |-> 111,
            entries |-> <<TarDir(<<"oci">>), TarDir(<<"oci", "bin">>),
                          TarReg(<<"oci", "bin", "entrypoint">>, Mode0755, <<"layer", i>>)>>,
            bad |-> FALSE, data |-> <<"layer", i>>]
      [] OTHER ->
           [gzip |-> FALSE, ustar |-> FALSE, len |-> 2, first |-> 123,
            entries |-> <<>>, bad |-> FALSE, data |-> <<"layer", i>>]

RECURSIVE extractTarWithReader_NoChmod(_, _, _, _)
extractTarWithReader_NoChmod(entries, i, bad, f) ==
    IF i > Len(entries) THEN [err |-> bad, fs |-> f]
    ELSE LET h == entries[i] IN
         IF h.typeflag = "dir"
           THEN LET r == MkdirAll(f, h.name, Mode0755)
                IN  IF r.err THEN r
                    ELSE extractTarWithReader_NoChmod(entries, i + 1, bad, r.fs)
         ELSE IF h.typeflag = "reg"
           THEN LET d == MkdirAll(f, Parent(h.name), Mode0755) IN
                IF d.err THEN d
                ELSE LET c == WriteFile(d.fs, h.name, h.data, Mode0644) IN
                     IF c.err THEN c
                     ELSE extractTarWithReader_NoChmod(entries, i + 1, bad, c.fs)
         ELSE extractTarWithReader_NoChmod(entries, i + 1, bad, f)

\* extractTarWithReader (oci.go:399-439): entry by entry, stopping at the
\* first error; what was written before the error stays.
RECURSIVE extractTarWithReader(_, _, _, _)
extractTarWithReader(entries, i, bad, f) ==
    IF i > Len(entries) THEN [err |-> bad, fs |-> f]
    ELSE LET h == entries[i] IN
         IF h.typeflag = "dir"
           THEN LET r == MkdirAll(f, h.name, Mode0755)
                IN  IF r.err THEN r ELSE extractTarWithReader(entries, i + 1, bad, r.fs)
         ELSE IF h.typeflag = "reg"
           THEN LET d == MkdirAll(f, Parent(h.name), Mode0755) IN
                IF d.err THEN d
                ELSE \* os.Create (0666 under the usual umask 022) and io.Copy
                     LET c == WriteFile(d.fs, h.name, h.data, Mode0644) IN
                     IF c.err THEN c
                     ELSE LET m == Chmod(c.fs, h.name, h.mode) IN
                          IF m.err THEN m
                          ELSE extractTarWithReader(entries, i + 1, bad, m.fs)
         ELSE extractTarWithReader(entries, i + 1, bad, f)

\* isTar (oci.go:442-448)
isTar(p) == p.len >= 512 /\ p.ustar

extractLayerContent_SizeFirst(p, f) ==
    IF p.len > LargeBinaryThreshold
      THEN LET d == MkdirAll(f, <<"bin">>, Mode0755)
           IN  IF d.err THEN d
               ELSE WriteFile(d.fs, <<"bin", "entrypoint">>, p.data, Mode0755)
    ELSE IF p.gzip THEN extractTarWithReader(p.entries, 1, p.bad, f)
    ELSE IF isTar(p) THEN extractTarWithReader(p.entries, 1, p.bad, f)
    ELSE IF p.len > 0 /\ p.first >= 32 /\ p.first < 127
      THEN WriteFile(f, <<"thin.provider.yaml">>, p.data, Mode0644)
    ELSE [err |-> FALSE, fs |-> f]

\* extractLayerContent (oci.go:337-368)
extractLayerContent(p, f) ==
    IF p.gzip THEN extractTarWithReader(p.entries, 1, p.bad, f)
    ELSE IF isTar(p) THEN extractTarWithReader(p.entries, 1, p.bad, f)
    ELSE IF p.len > LargeBinaryThreshold
      THEN LET d == MkdirAll(f, <<"bin">>, Mode0755)
           IN  IF d.err THEN d
               ELSE WriteFile(d.fs, <<"bin", "entrypoint">>, p.data, Mode0755)
    ELSE IF p.len > 0 /\ p.first >= 32 /\ p.first < 127
      THEN WriteFile(f, <<"thin.provider.yaml">>, p.data, Mode0644)
    ELSE [err |-> FALSE, fs |-> f]

\* ------------------------------------------------------------------------
\* Layout finalization helpers
\* ------------------------------------------------------------------------
IsUnder(p, q) == Len(q) >= Len(p) /\ SubSeq(q, 1, Len(p)) = p

\* os.RemoveAll(path)
RemoveAll(f, p) == [q \in Paths |-> IF IsUnder(p, q) THEN NoEnt ELSE f[q]]

\* os.ReadDir(dir): the names of the entries of dir, sorted by name
ReadDir(f, dir) ==
    SelectSeq(NameOrder,
              LAMBDA n : Append(dir, n) \in Paths /\ f[Append(dir, n)].t # "none")

\* copyDir (oci.go:508-545): what was copied before an error stays.
RECURSIVE copyDir(_, _, _)
RECURSIVE copyEntries(_, _, _, _, _)
copyDir(f, src, dst) ==
    IF f[src].t # "dir" THEN [err |-> TRUE, fs |-> f]
    ELSE LET entries == ReadDir(f, src)
             d == MkdirAll(f, dst, Mode0755)
         IN  IF d.err THEN d ELSE copyEntries(d.fs, src, dst, entries, 1)
copyEntries(f, src, dst, entries, k) ==
    IF k > Len(entries) THEN [err |-> FALSE, fs |-> f]
    ELSE LET srcPath == Append(src, entries[k])
             dstPath == Append(dst, entries[k])
         IN  IF f[srcPath].t = "dir"
               THEN LET r == copyDir(f, srcPath, dstPath)
                    IN  IF r.err THEN r ELSE copyEntries(r.fs, src, dst, entries, k + 1)
               ELSE LET w == WriteFile(f, dstPath, f[srcPath].data, f[srcPath].mode)
                    IN  IF w.err THEN w ELSE copyEntries(w.fs, src, dst, entries, k + 1)

\* oci.go:254-266: one item of the loop that moves oci/<item> to the root
MoveOciItem(f, item) ==
    LET src == <<"oci", item>>
        dst == <<item>>
    IN  IF f[src].t = "dir"
          THEN LET c == copyDir(f, src, dst)
               IN  IF c.err THEN c.fs ELSE RemoveAll(c.fs, src)
          ELSE f

\* oci.go:250-269
MoveOci(f) ==
    IF f[<<"oci">>].t = "dir"
      THEN RemoveAll(MoveOciItem(MoveOciItem(f, "bin"), "assets"), <<"oci">>)
      ELSE f

\* os.Stat(path) succeeds
Exists(f, p) == f[p].t # "none"

BinaryCandidates_NestedFirst ==
    <<<<"bin", "linux", "amd64", "entrypoint">>,
      <<"bin", "entrypoint">>, <<"bin", "thin">>, <<"bin", "provider">>,
      <<"bin", "linux", "amd64", "thin">>,
      <<"bin", "linux", "amd64", "provider">>>>

\* GetPlatformBinaryPath (oci.go:451-484): the candidates in the order they
\* are tried, with goos/arch of currentPlatform
BinaryCandidates ==
    <<<<"bin", "entrypoint">>, <<"bin", "thin">>, <<"bin", "provider">>,
      <<"bin", "linux", "amd64", "entrypoint">>,
      <<"bin", "linux", "amd64", "thin">>,
      <<"bin", "linux", "amd64", "provider">>>>

\* the path found, or <<>> with err
GetPlatformBinaryPath(f) ==
    LET found == SelectSeq(BinaryCandidates, LAMBDA c : Exists(f, c))
    IN  IF Len(found) = 0 THEN [err |-> TRUE, path |-> <<>>]
        ELSE [err |-> FALSE, path |-> found[1]]

\* binPath, err before line 279 has run
NoBinPath == [err |-> FALSE, path |-> <<>>]

\* The config blob of the manifest (manifest.Config): the empty config
\* "{}" of two bytes, or a JSON document.
ConfigData == <<"config", 0>>
ConfigBlobs ==
    {[gzip |-> FALSE, ustar |-> FALSE, len |-> 2, first |-> 123,
      entries |-> <<>>, bad |-> FALSE, data |-> ConfigData],
     [gzip |-> FALSE, ustar |-> FALSE, len |-> 233, first |-> 123,
      entries |-> <<>>, bad |-> FALSE, data |-> ConfigData]}

\* extractLayerContent makes a file-system call for this payload
TouchesDisk(p) ==
    p.gzip \/ isTar(p) \/ p.len > LargeBinaryThreshold
    \/ (p.len > 0 /\ p.first >= 32 /\ p.first < 127)

\* ------------------------------------------------------------------------
\* State of one call of PullProviderOCI
\* ------------------------------------------------------------------------
VARIABLES
    manifest,          \* manifest.Layers: the media type of each layer
    fs,                \* the installation root
    cpc,               \* position of the coordinator (the caller's goroutine)
    result,            \* what PullProviderOCI returned: "" while running
    layersToDownload,  \* the download set (indices into manifest.Layers)
    legacyFallback,    \* the fallback branch of line 160 was taken
    jobs,              \* the jobs channel: buffered layers
    jobsClosed,        \* close(jobs) has run
    results,           \* the results channel: buffered layerJob values
    resultsClosed,     \* close(results) has run
    wpc,               \* position of each worker
    wlayer,            \* the layer a worker holds (0: none)
    wdata,             \* the payload a worker fetched
    wg,                \* the WaitGroup counter
    epc,               \* the goroutine of lines 201-206: next index to send
    kpc,               \* the goroutine of lines 209-212
    cur,               \* the layerJob the coordinator took from results
    downloadsCompleted,
    fetched,           \* history: how often each layer's fetch was started
    extracted,         \* history: how often each layer was extracted
    failedSent,        \* history: failed outcomes each worker has sent
    binPath,           \* binPath, err of line 279
    layerSize,         \* manifest.Layers[i].Size
    hkind,             \* the StatusHandler: "tty", "text", or "hidden"
    hstate,            \* handler: "none" before line 36, "open", "closed"
    mu,                \* h.mu: the threads that hold it
    hcall,             \* the handler method each goroutine is in
    progress,          \* h.progress, by layer
    currentNode,       \* h.currentNode (0: "")
    rpc,               \* position of renderLoop
    tick,              \* h.ticker.C holds a tick
    tickerStopped,     \* h.ticker.Stop() has run
    doneClosed,        \* close(h.done) has run
    closes,            \* history: calls of Close that have returned
    gauge,             \* the status line render wrote last
    newlines,          \* history: trailing newlines Close has printed
    lastStarted,       \* history: the layer whose OnNodeDownloading ran last
    drawn,             \* history: the layer whose line the last render drew
    xp,                \* extractor alone: the layerData it is called with
    xruns,             \* extractor alone: calls of extractLayerContent so far
    xerr,              \* extractor alone: the last call returned an error
    tracker,           \* tracked transfer alone: each worker's progressTracker
    reported,          \* history: the last value each tracker has reported
    imageRef,          \* locator alone: the imageRef PullProviderOCI is given
    ref,               \* locator alone: ref after lines 41-50
    tag,               \* locator alone: tag of lines 77-80
    lpc,               \* locator alone: "start", "normalized", "resolve"
    stdout,            \* handlers alone: the file behind os.Stdout
    selected,          \* handlers alone: what NewStatusHandler returned
    handlers,          \* handlers alone: a handler of each kind
    event              \* handlers alone: history, the method called last

\* the state of the components when they are run on their own
locVars == <<imageRef, ref, tag, lpc>>
sideVars == <<stdout, selected, handlers, event>>
benchVars == <<xp, xruns, xerr, tracker, reported, locVars, sideVars>>

vars ==
    <<manifest, fs, cpc, result, layersToDownload, legacyFallback, jobs,
      jobsClosed, results, resultsClosed, wpc, wlayer, wdata, wg, epc, kpc,
      cur, downloadsCompleted, fetched, extracted, failedSent, binPath,
      layerSize, hkind, hstate, mu, hcall, progress, currentNode, rpc, tick,
      tickerStopped, doneClosed, closes, gauge, newlines, lastStarted,
      drawn, benchVars>>

\* ------------------------------------------------------------------------
\* The progress reporter (status handler).  The goroutines that call it are
\* the workers, the coordinator (Coord) and its own render loop (Renderer).
\* In the specifications of the pipeline the reporter is hidden: its
\* methods return at once and its state is not followed.
\* ------------------------------------------------------------------------
Coord == 0
Renderer == 0 - 1

\* the state of the handler apart from the calls in progress
handlerVars ==
    <<layerSize, hkind, hstate, mu, progress, currentNode, rpc, tick,
      tickerStopped, doneClosed, closes, gauge, newlines, lastStarted, drawn>>
repVars == <<handlerVars, hcall>>

NoCall == [op |-> "none", layer |-> 0, bytes |-> 0, pc |-> "none"]
\* goroutine t is in no handler method
Idle(t) == hcall[t].pc = "none"
\* goroutine t calls the handler method op for layer l
Calls(t, op, l, n) ==
    hcall' = IF hkind = "hidden" THEN hcall
             ELSE [hcall EXCEPT ![t] = [op |-> op, layer |-> l, bytes |-> n,
                                        pc |-> "lock"]]

\* no entry of h.progress
NoProgress == [status |-> "absent", bytesRead |-> 0, size |-> 0]
NoGauge == [filled |-> 0 - 1, percent |-> 0 - 1, read |-> 0 - 1]

\* Start 2 worker goroutines (oci.go:180)
NumWorkers == 2
Workers_OneMore == 1..(NumWorkers + 1)
Workers == 1..NumWorkers

\* make(chan ..., len(layersToDownload)) (oci.go:175-176)
JobsCap == Len(layersToDownload)
ResultsCap_OneShort == Len(layersToDownload) - 1
ResultsCap == Len(layersToDownload)

NoData == [gzip |-> FALSE, ustar |-> FALSE, len |-> 0, first |-> 0,
           entries |-> <<>>, bad |-> FALSE, data |-> NoBytes]
NoJob == [layer |-> 0, data |-> NoData, err |-> FALSE]

EmptyFS == [p \in Paths |-> NoEnt]

\* The reporter before NewStatusHandler, of the kind k; the size of a
\* layer's descriptor is the length of its blob.
ReporterStart(kinds) ==
    /\ layerSize = [i \in 1..Len(manifest) |-> Blob(manifest[i], i).len]
    /\ hkind \in kinds
    /\ hstate = "none"
    /\ mu = {}
    /\ hcall = [t \in Workers \cup {Coord} |-> NoCall]
    /\ progress = [l \in 1..Len(manifest) |-> NoProgress]
    /\ currentNode = 0
    /\ rpc = "none"
    /\ tick = FALSE
    /\ tickerStopped = FALSE
    /\ doneClosed = FALSE
    /\ closes = 0
    /\ gauge = NoGauge
    /\ newlines = 0
    /\ lastStarted = 0
    /\ drawn = 0

ReporterHidden == ReporterStart({"hidden"})

\* no progressTracker exists
NoTracker == [key |-> 0, bytesRead |-> 0, state |-> "none"]
TrackersIdle ==
    /\ tracker = [w \in Workers |-> NoTracker]
    /\ reported = [w \in Workers |-> 0 - 1]

\* no locator is being normalized
LocatorIdle ==
    /\ imageRef = <<>>
    /\ ref = <<>>
    /\ tag = <<>>
    /\ lpc = "none"

\* a zero ocispec.Descriptor, no file, no handler method
NoDesc == [digest |-> <<>>, size |-> 0]
NoFile == [fd |-> 0 - 1, device |-> "none"]
NoEvent == [op |-> "none", desc |-> NoDesc, digest |-> <<>>, bytesRead |-> 0]

\* no handler is run on its own
HandlersIdle ==
    /\ stdout = NoFile
    /\ selected = "none"
    /\ handlers = <<>>
    /\ event = NoEvent

\* no component is run on its own
BenchIdle ==
    /\ xp = NoData
    /\ xruns = 0
    /\ xerr = FALSE
    /\ TrackersIdle
    /\ LocatorIdle
    /\ HandlersIdle

\* The state in which the coordinator is at position pc with root f and
\* nothing of the scheduler exists yet, for the manifests ms.
StartState(ms, pc, f) ==
    /\ manifest \in ms
    /\ fs = f
    /\ cpc = pc
    /\ result = ""
    /\ layersToDownload = <<>>
    /\ legacyFallback = FALSE
    /\ jobs = <<>>
    /\ jobsClosed = FALSE
    /\ results = <<>>
    /\ resultsClosed = FALSE
    /\ wpc = [w \in Workers |-> "unborn"]
    /\ wlayer = [w \in Workers |-> 0]
    /\ wdata = [w \in Workers |-> NoData]
    /\ wg = 0
    /\ epc = 0
    /\ kpc = "unborn"
    /\ cur = NoJob
    /\ downloadsCompleted = 0
    /\ fetched = [i \in 1..Len(manifest) |-> 0]
    /\ extracted = [i \in 1..Len(manifest) |-> 0]
    /\ failedSent = [w \in Workers |-> 0]
    /\ binPath = NoBinPath

Init ==
    /\ StartState(PipelineManifests, "start", EmptyFS)
    /\ BenchIdle
    /\ ReporterHidden

schedVars ==
    <<jobs, jobsClosed, results, resultsClosed, wpc, wlayer, wdata, wg, epc,
      kpc, fetched, failedSent>>

\* return from PullProviderOCI with r: the deferred handler.Close() of line
\* 37 runs before the caller goes on
Return(r) ==
    /\ cpc' = IF hstate = "open" THEN "close" ELSE "done"
    /\ result' = r

\* oci.go:36, NewStatusHandler: the handler exists; the TTY handler has
\* started its ticker and its render loop
NewHandler ==
    IF hkind = "hidden" THEN UNCHANGED <<hstate, rpc>>
    ELSE /\ hstate' = "open"
         /\ rpc' = IF hkind = "tty" THEN "select" ELSE "none"

\* oci.go:29-33: create the provider directory
CStart ==
    /\ cpc = "start"
    /\ \/ /\ fs' = MkdirAll(fs, <<>>, Mode0755).fs
          /\ cpc' = "resolve"
          /\ NewHandler
          /\ UNCHANGED result
       \/ /\ Return("failed to create provider directory")
          /\ UNCHANGED <<fs, hstate, rpc>>
    /\ UNCHANGED <<manifest, layersToDownload, legacyFallback, cur,
                   downloadsCompleted, extracted, schedVars, benchVars, binPath,
                   layerSize, hkind, mu, progress, currentNode, tick,
                   tickerStopped, doneClosed, closes, gauge, newlines,
                   lastStarted, drawn, hcall>>

\* oci.go:55-107: resolve the tag, fetch and parse the manifest
CResolve ==
    /\ cpc = "resolve"
    /\ \/ cpc' = "classify" /\ UNCHANGED result
       \/ Return("failed to resolve image")
       \/ Return("failed to fetch manifest")
       \/ Return("failed to parse manifest")
    /\ UNCHANGED <<manifest, fs, layersToDownload, legacyFallback, cur,
                   downloadsCompleted, extracted, schedVars, benchVars, binPath, repVars>>

\* oci.go:109-212: classify the layers, make the channels and start the
\* goroutines
CClassify ==
    /\ cpc = "classify"
    /\ LET c == Classify(manifest) IN
       IF c.err # ""
         THEN /\ Return(c.err)
              /\ UNCHANGED <<layersToDownload, legacyFallback, schedVars>>
         ELSE /\ layersToDownload' = c.layersToDownload
              /\ legacyFallback' = c.legacyFallback
              /\ wpc' = [w \in Workers |-> "idle"]
              /\ wg' = NumWorkers
              /\ epc' = 1
              /\ kpc' = "wait"
              /\ cpc' = "recv"
              /\ UNCHANGED <<result, jobs, jobsClosed, results, resultsClosed,
                             wlayer, wdata, fetched, failedSent>>
    /\ UNCHANGED <<manifest, fs, cur, downloadsCompleted, extracted, benchVars, binPath, repVars>>

coordVars == <<manifest, fs, cpc, result, layersToDownload, legacyFallback,
               cur, downloadsCompleted, extracted>>

WTake_TakesLast(w) ==
    /\ wpc[w] = "idle"
    /\ Len(jobs) > 0
    /\ wlayer' = [wlayer EXCEPT ![w] = jobs[Len(jobs)]]
    /\ jobs' = SubSeq(jobs, 1, Len(jobs) - 1)
    /\ fetched' = [fetched EXCEPT ![jobs[Len(jobs)]] = @ + 1]
    /\ wpc' = [wpc EXCEPT ![w] = "fetching"]
    /\ Calls(w, "OnNodeDownloading", jobs[Len(jobs)], 0)
    /\ UNCHANGED <<jobsClosed, results, resultsClosed, wdata, wg, epc, kpc,
                   failedSent, coordVars, benchVars, binPath, handlerVars>>

\* oci.go:184-185: a worker receives a layer from jobs and reports
\* OnNodeDownloading
WTake(w) ==
    /\ wpc[w] = "idle"
    /\ Len(jobs) > 0
    /\ wlayer' = [wlayer EXCEPT ![w] = Head(jobs)]
    /\ jobs' = Tail(jobs)
    /\ fetched' = [fetched EXCEPT ![Head(jobs)] = @ + 1]
    /\ wpc' = [wpc EXCEPT ![w] = "fetching"]
    /\ Calls(w, "OnNodeDownloading", Head(jobs), 0)
    /\ UNCHANGED <<jobsClosed, results, resultsClosed, wdata, wg, epc, kpc,
                   failedSent, coordVars, benchVars, binPath, handlerVars>>

\* oci.go:184,183: jobs is closed and drained: the range loop ends and the
\* deferred wg.Done runs
WExit(w) ==
    /\ wpc[w] = "idle"
    /\ Len(jobs) = 0
    /\ jobsClosed
    /\ wpc' = [wpc EXCEPT ![w] = "done"]
    /\ wg' = wg - 1
    /\ UNCHANGED <<jobs, jobsClosed, results, resultsClosed, wlayer, wdata,
                   epc, kpc, fetched, failedSent, coordVars, benchVars, binPath, repVars>>

WFetchOk_Extracts(w) ==
    /\ wpc[w] = "fetching"
    /\ wdata' = [wdata EXCEPT ![w] = Blob(manifest[wlayer[w]], wlayer[w])]
    /\ fs' = extractLayerContent(Blob(manifest[wlayer[w]], wlayer[w]), fs).fs
    /\ wpc' = [wpc EXCEPT ![w] = "sendok"]
    /\ UNCHANGED <<jobs, jobsClosed, results, resultsClosed, wlayer, wg, epc,
                   kpc, fetched, failedSent, manifest, cpc, result,
                   layersToDownload, legacyFallback, cur, downloadsCompleted,
                   extracted, benchVars, binPath, repVars>>

\* oci.go:188,194: trackedFetchAll returns the payload; OnNodeDownloaded
WFetchOk(w) ==
    /\ wpc[w] = "fetching"
    /\ Idle(w)
    /\ wdata' = [wdata EXCEPT ![w] = Blob(manifest[wlayer[w]], wlayer[w])]
    /\ wpc' = [wpc EXCEPT ![w] = "sendok"]
    /\ Calls(w, "OnNodeDownloaded", wlayer[w], 0)
    /\ UNCHANGED <<jobs, jobsClosed, results, resultsClosed, wlayer, wg, epc,
                   kpc, fetched, failedSent, coordVars, benchVars, binPath,
                   handlerVars>>

WFetchFail_Downloaded(w) ==
    /\ wpc[w] = "fetching"
    /\ Idle(w)
    /\ wpc' = [wpc EXCEPT ![w] = "sendfail"]
    /\ Calls(w, "OnNodeDownloaded", wlayer[w], 0)
    /\ UNCHANGED <<jobs, jobsClosed, results, resultsClosed, wlayer, wdata,
                   wg, epc, kpc, fetched, failedSent, coordVars, benchVars,
                   binPath, handlerVars>>

\* oci.go:188-189: trackedFetchAll returns an error
WFetchFail(w) ==
    /\ wpc[w] = "fetching"
    /\ Idle(w)
    /\ wpc' = [wpc EXCEPT ![w] = "sendfail"]
    /\ UNCHANGED <<jobs, jobsClosed, results, resultsClosed, wlayer, wdata,
                   wg, epc, kpc, fetched, failedSent, coordVars, benchVars, binPath, repVars>>

\* oci.go:195: results <- layerJob{layer, data, nil}, then the next
\* iteration of the range loop
WSendOk(w) ==
    /\ wpc[w] = "sendok"
    /\ Idle(w)
    /\ Len(results) < ResultsCap
    /\ results' = Append(results, [layer |-> wlayer[w], data |-> wdata[w], err |-> FALSE])
    /\ wlayer' = [wlayer EXCEPT ![w] = 0]
    /\ wdata' = [wdata EXCEPT ![w] = NoData]
    /\ wpc' = [wpc EXCEPT ![w] = "idle"]
    /\ UNCHANGED <<jobs, jobsClosed, resultsClosed, wg, epc, kpc, fetched,
                   failedSent, coordVars, benchVars, binPath, repVars>>

WSendFail_Continue(w) ==
    /\ wpc[w] = "sendfail"
    /\ Len(results) < ResultsCap
    /\ results' = Append(results, [layer |-> wlayer[w], data |-> NoData, err |-> TRUE])
    /\ failedSent' = [failedSent EXCEPT ![w] = @ + 1]
    /\ wlayer' = [wlayer EXCEPT ![w] = 0]
    /\ wpc' = [wpc EXCEPT ![w] = "idle"]
    /\ UNCHANGED <<jobs, jobsClosed, resultsClosed, wdata, wg, epc, kpc,
                   fetched, coordVars, benchVars, binPath, repVars>>

\* oci.go:190-191,183: results <- layerJob{layer, nil, err}; return; the
\* deferred wg.Done runs
WSendFail(w) ==
    /\ wpc[w] = "sendfail"
    /\ Len(results) < ResultsCap
    /\ results' = Append(results, [layer |-> wlayer[w], data |-> NoData, err |-> TRUE])
    /\ failedSent' = [failedSent EXCEPT ![w] = @ + 1]
    /\ wlayer' = [wlayer EXCEPT ![w] = 0]
    /\ wpc' = [wpc EXCEPT ![w] = "done"]
    /\ wg' = wg - 1
    /\ UNCHANGED <<jobs, jobsClosed, resultsClosed, wdata, epc, kpc, fetched,
                   coordVars, benchVars, binPath, repVars>>

Worker(w) ==
    \/ WTake(w)
    \/ WExit(w)
    \/ WFetchOk(w)
    \/ WFetchFail(w)
    \/ WSendOk(w)
    \/ WSendFail(w)

\* oci.go:202-204: jobs <- *layer
ESend ==
    /\ epc \in 1..Len(layersToDownload)
    /\ Len(jobs) < JobsCap
    /\ jobs' = Append(jobs, layersToDownload[epc])
    /\ epc' = epc + 1
    /\ UNCHANGED <<jobsClosed, results, resultsClosed, wpc, wlayer, wdata, wg,
                   kpc, fetched, failedSent, coordVars, benchVars, binPath, repVars>>

\* oci.go:205: close(jobs)
EClose ==
    /\ epc = Len(layersToDownload) + 1
    /\ ~jobsClosed
    /\ jobsClosed' = TRUE
    /\ UNCHANGED <<jobs, results, resultsClosed, wpc, wlayer, wdata, wg, epc,
                   kpc, fetched, failedSent, coordVars, benchVars, binPath, repVars>>

KClose_NoWait ==
    /\ kpc = "wait"
    /\ resultsClosed' = TRUE
    /\ kpc' = "done"
    /\ UNCHANGED <<jobs, jobsClosed, results, wpc, wlayer, wdata, wg, epc,
                   fetched, failedSent, coordVars, benchVars, binPath, repVars>>

\* oci.go:210-211: wg.Wait(); close(results)
KClose ==
    /\ kpc = "wait"
    /\ wg = 0
    /\ resultsClosed' = TRUE
    /\ kpc' = "done"
    /\ UNCHANGED <<jobs, jobsClosed, results, wpc, wlayer, wdata, wg, epc,
                   fetched, failedSent, coordVars, benchVars, binPath, repVars>>

CRecv_IgnoreError ==
    /\ cpc = "recv"
    /\ \/ /\ Len(results) > 0
          /\ results' = Tail(results)
          /\ IF Head(results).err
               THEN UNCHANGED <<cur, cpc, result>>
               ELSE cur' = Head(results) /\ cpc' = "extract" /\ UNCHANGED result
       \/ /\ Len(results) = 0
          /\ resultsClosed
          /\ cpc' = "config"
          /\ UNCHANGED <<results, cur, result>>
    /\ UNCHANGED <<manifest, fs, layersToDownload, legacyFallback,
                   downloadsCompleted, extracted, jobs, jobsClosed,
                   resultsClosed, wpc, wlayer, wdata, wg, epc, kpc, fetched,
                   failedSent, benchVars, binPath, repVars>>

\* oci.go:218-223: one iteration of the range over results up to
\* OnNodeProcessing, or the end of the loop
CRecv ==
    /\ cpc = "recv"
    /\ Idle(Coord)
    /\ \/ /\ Len(results) > 0
          /\ results' = Tail(results)
          /\ IF Head(results).err
               THEN Return("failed to fetch layer") /\ UNCHANGED <<cur, hcall>>
               ELSE /\ cur' = Head(results)
                    /\ cpc' = "extract"
                    /\ Calls(Coord, "OnNodeProcessing", Head(results).layer, 0)
                    /\ UNCHANGED result
       \/ /\ Len(results) = 0
          /\ resultsClosed
          /\ cpc' = "config"
          /\ UNCHANGED <<results, cur, result, hcall>>
    /\ UNCHANGED <<manifest, fs, layersToDownload, legacyFallback,
                   downloadsCompleted, extracted, jobs, jobsClosed,
                   resultsClosed, wpc, wlayer, wdata, wg, epc, kpc, fetched,
                   failedSent, benchVars, binPath, handlerVars>>

\* oci.go:226-231: extractLayerContent, OnNodeRestored; the second case is
\* an error of the operating system at the first write
CExtract ==
    /\ cpc = "extract"
    /\ Idle(Coord)
    /\ \/ LET r == extractLayerContent(cur.data, fs) IN
          /\ fs' = r.fs
          /\ IF r.err
               THEN /\ Return("failed to extract layer")
                    /\ UNCHANGED <<downloadsCompleted, hcall>>
               ELSE /\ cpc' = "recv"
                    /\ downloadsCompleted' = downloadsCompleted + 1
                    /\ Calls(Coord, "OnNodeRestored", cur.layer, 0)
                    /\ UNCHANGED result
       \/ /\ TouchesDisk(cur.data)
          /\ Return("failed to extract layer")
          /\ UNCHANGED <<fs, downloadsCompleted, hcall>>
    /\ extracted' = [extracted EXCEPT ![cur.layer] = @ + 1]
    /\ cur' = NoJob
    /\ UNCHANGED <<manifest, layersToDownload, legacyFallback, schedVars,
                   benchVars, binPath, handlerVars>>

\* oci.go:234-241: the config blob, when it is larger than two bytes, is
\* fetched and extracted like a layer; errors are ignored
CConfig ==
    /\ cpc = "config"
    /\ \E c \in ConfigBlobs :
          \/ c.len > 2 /\ fs' = extractLayerContent(c, fs).fs
          \/ fs' = fs
    /\ cpc' = "finalize"
    /\ UNCHANGED <<manifest, result, layersToDownload, legacyFallback, cur,
                   downloadsCompleted, extracted, schedVars, benchVars, binPath, repVars>>

CFinalize_BinaryRequired ==
    /\ cpc = "finalize"
    /\ LET b == MkdirAll(fs, <<"bin">>, Mode0755)
           a == MkdirAll(b.fs, <<"assets">>, Mode0755)
           m == MoveOci(a.fs)
           g == GetPlatformBinaryPath(m)
       IN  IF b.err
             THEN Return("failed to create directory bin") /\ fs' = b.fs
                  /\ UNCHANGED binPath
           ELSE IF a.err
             THEN Return("failed to create directory assets") /\ fs' = a.fs
                  /\ UNCHANGED binPath
           ELSE IF g.err THEN Return("binary not found") /\ fs' = m /\ binPath' = g
           ELSE Return("ok") /\ fs' = Chmod(m, g.path, Mode0755).fs /\ binPath' = g
    /\ UNCHANGED <<manifest, layersToDownload, legacyFallback, cur,
                   downloadsCompleted, extracted, schedVars, benchVars, repVars>>

\* oci.go:243-292: canonical directories, the nested oci directory, the
\* platform binary
CFinalize ==
    /\ cpc = "finalize"
    /\ LET b == MkdirAll(fs, <<"bin">>, Mode0755)
           a == MkdirAll(b.fs, <<"assets">>, Mode0755)
           m == MoveOci(a.fs)
           g == GetPlatformBinaryPath(m)
       IN  IF b.err
             THEN Return("failed to create directory bin") /\ fs' = b.fs
                  /\ UNCHANGED binPath
           ELSE IF a.err
             THEN Return("failed to create directory assets") /\ fs' = a.fs
                  /\ UNCHANGED binPath
           ELSE IF g.err THEN Return("ok") /\ fs' = m /\ binPath' = g
           ELSE Return("ok") /\ fs' = Chmod(m, g.path, Mode0755).fs /\ binPath' = g
    /\ UNCHANGED <<manifest, layersToDownload, legacyFallback, cur,
                   downloadsCompleted, extracted, schedVars, benchVars, repVars>>

Coordinator ==
    \/ CStart
    \/ CResolve
    \/ CClassify
    \/ CRecv
    \/ CExtract
    \/ CConfig
    \/ CFinalize

Next ==
    \/ Coordinator
    \/ \E w \in Workers : Worker(w)
    \/ ESend
    \/ EClose
    \/ KClose

Spec == Init /\ [][Next]_vars

\* The scheduler under fair scheduling: every goroutine is scheduled again
\* and again, and a fetch in progress returns (with a payload or with an
\* error).
InitScheduler ==
    /\ StartState(SchedulerManifests, "start", EmptyFS)
    /\ BenchIdle
    /\ ReporterHidden

FairSpec ==
    /\ InitScheduler
    /\ [][Next]_vars
    /\ WF_vars(Coordinator)
    /\ \A w \in Workers : WF_vars(Worker(w))
    /\ WF_vars(ESend)
    /\ WF_vars(EClose)
    /\ WF_vars(KClose)

\* ------------------------------------------------------------------------
\* The pipeline with its progress reporter: every handler method takes
\* h.mu, works on h.progress and releases h.mu (part_001:56-125, 271-348).
\* ------------------------------------------------------------------------
Callers == Workers \cup {Coord}

HLock_NoWait(t) ==
    /\ hcall[t].pc = "lock"
    /\ mu' = mu \cup {t}
    /\ hcall' = [hcall EXCEPT ![t].pc = "in"]
    /\ UNCHANGED <<layerSize, hkind, hstate, progress, currentNode, rpc, tick,
                   tickerStopped, doneClosed, closes, gauge, newlines,
                   coordVars, schedVars, binPath, benchVars>>
    /\ UNCHANGED <<lastStarted, drawn>>

\* h.mu.Lock() of a handler method: wait until the mutex is free
HLock(t) ==
    /\ hcall[t].pc = "lock"
    /\ mu = {}
    /\ mu' = {t}
    /\ hcall' = [hcall EXCEPT ![t].pc = "in"]
    /\ UNCHANGED <<layerSize, hkind, hstate, progress, currentNode, rpc, tick,
                   tickerStopped, doneClosed, closes, gauge, newlines,
                   coordVars, schedVars, binPath, benchVars>>
    /\ UNCHANGED <<lastStarted, drawn>>

\* the record of layer l after the method op
Touch(op, l, n) ==
    IF op = "OnNodeDownloading"
      THEN [status |-> "Downloading", bytesRead |-> 0, size |-> layerSize[l]]
    ELSE IF progress[l].status = "absent" THEN progress[l]
    ELSE IF op = "OnNodeDownloaded" THEN [progress[l] EXCEPT !.status = "Downloaded"]
    ELSE IF op = "OnNodeProcessing" THEN [progress[l] EXCEPT !.status = "Processing"]
    ELSE IF op = "OnNodeRestored" THEN [progress[l] EXCEPT !.status = "Restored"]
    ELSE IF op = "UpdateProgress" THEN [progress[l] EXCEPT !.bytesRead = n]
    ELSE progress[l]

\* the body of a handler method under the mutex and the deferred
\* h.mu.Unlock(); l = 0 is a key that h.progress does not have
HBody(t) ==
    /\ hcall[t].pc = "in"
    /\ LET op == hcall[t].op
           l == hcall[t].layer
       IN  /\ progress' = IF l \in DOMAIN progress
                            THEN [progress EXCEPT ![l] = Touch(op, l, hcall[t].bytes)]
                            ELSE progress
           /\ currentNode' =
                 IF hkind = "tty" /\ op = "OnNodeDownloading" THEN l
                 ELSE IF hkind = "tty" /\ op = "OnNodeRestored" THEN 0
                 ELSE currentNode
    /\ mu' = mu \ {t}
    /\ hcall' = [hcall EXCEPT ![t] = NoCall]
    /\ UNCHANGED <<layerSize, hkind, hstate, rpc, tick, tickerStopped,
                   doneClosed, closes, gauge, newlines, coordVars, schedVars,
                   binPath, benchVars>>
    /\ lastStarted' = IF hcall[t].op = "OnNodeDownloading" THEN hcall[t].layer
                      ELSE lastStarted
    /\ UNCHANGED drawn

\* time.NewTicker(100ms): a tick arrives in the ticker's channel, which
\* holds one tick
Tick ==
    /\ rpc # "none"
    /\ ~tickerStopped
    /\ ~tick
    /\ tick' = TRUE
    /\ UNCHANGED <<layerSize, hkind, hstate, mu, progress, currentNode, rpc,
                   tickerStopped, doneClosed, closes, gauge, newlines, hcall,
                   coordVars, schedVars, binPath, benchVars>>
    /\ UNCHANGED <<lastStarted, drawn>>

\* renderLoop, case <-h.ticker.C: h.render() is called
RSelectTick ==
    /\ rpc = "select"
    /\ tick
    /\ tick' = FALSE
    /\ rpc' = "lock"
    /\ UNCHANGED <<layerSize, hkind, hstate, mu, progress, currentNode,
                   tickerStopped, doneClosed, closes, gauge, newlines, hcall,
                   coordVars, schedVars, binPath, benchVars>>
    /\ UNCHANGED <<lastStarted, drawn>>

\* renderLoop, case <-h.done: return, and the deferred h.wg.Done()
RSelectDone ==
    /\ rpc = "select"
    /\ doneClosed
    /\ rpc' = "exited"
    /\ UNCHANGED <<layerSize, hkind, hstate, mu, progress, currentNode, tick,
                   tickerStopped, doneClosed, closes, gauge, newlines, hcall,
                   coordVars, schedVars, binPath, benchVars>>
    /\ UNCHANGED <<lastStarted, drawn>>

\* render: h.mu.Lock()
RLock ==
    /\ rpc = "lock"
    /\ mu = {}
    /\ mu' = {Renderer}
    /\ rpc' = "in"
    /\ UNCHANGED <<layerSize, hkind, hstate, progress, currentNode, tick,
                   tickerStopped, doneClosed, closes, gauge, newlines, hcall,
                   coordVars, schedVars, binPath, benchVars>>
    /\ UNCHANGED <<lastStarted, drawn>>

BarLength == 20
Gauge_NoClamp(bytesRead, size) ==
    [filled |-> (bytesRead * BarLength) \div size,
     percent |-> (bytesRead * 20000 + size) \div (2 * size),
     read |-> bytesRead]

\* render (part_001:187-214) for size > 0: the cells of the bar that are
\* filled, the percentage in hundredths as "%.2f" rounds it, and the
\* bytes shown as read
Gauge(bytesRead, size) ==
    IF bytesRead > size
      THEN [filled |-> BarLength, percent |-> 10000, read |-> bytesRead]
      ELSE [filled |-> (bytesRead * BarLength) \div size,
            percent |-> (bytesRead * 20000 + size) \div (2 * size),
            read |-> bytesRead]

\* render under the mutex (part_001:177-236) and the deferred Unlock
RBody ==
    /\ rpc = "in"
    /\ gauge' = IF currentNode # 0 /\ progress[currentNode].status = "Downloading"
                  THEN Gauge(progress[currentNode].bytesRead,
                             progress[currentNode].size)
                  ELSE gauge
    /\ mu' = mu \ {Renderer}
    /\ rpc' = "select"
    /\ UNCHANGED <<layerSize, hkind, hstate, progress, currentNode, tick,
                   tickerStopped, doneClosed, closes, newlines, hcall,
                   coordVars, schedVars, binPath, benchVars>>
    /\ drawn' = IF currentNode # 0 /\ progress[currentNode].status = "Downloading"
                  THEN currentNode
                  ELSE 0
    /\ UNCHANGED lastStarted

\* the deferred handler.Close(): the text handler's Close does nothing;
\* the TTY handler's runs h.ticker.Stop() and close(h.done)
CCloseStop ==
    /\ cpc = "close"
    /\ IF hkind = "tty"
         THEN /\ tickerStopped' = TRUE
              /\ doneClosed' = TRUE
              /\ cpc' = "closewait"
              /\ UNCHANGED <<hstate, closes>>
         ELSE /\ hstate' = "closed"
              /\ closes' = closes + 1
              /\ cpc' = "done"
              /\ UNCHANGED <<tickerStopped, doneClosed>>
    /\ UNCHANGED <<manifest, fs, result, layersToDownload, legacyFallback, cur,
                   downloadsCompleted, extracted, schedVars, binPath, benchVars,
                   layerSize, hkind, mu, progress, currentNode, rpc, tick,
                   gauge, newlines, hcall>>
    /\ UNCHANGED <<lastStarted, drawn>>

CCloseWait_NoWait ==
    /\ cpc = "closewait"
    /\ newlines' = newlines + 1
    /\ hstate' = "closed"
    /\ closes' = closes + 1
    /\ cpc' = "done"
    /\ UNCHANGED <<manifest, fs, result, layersToDownload, legacyFallback, cur,
                   downloadsCompleted, extracted, schedVars, binPath, benchVars,
                   layerSize, hkind, mu, progress, currentNode, rpc, tick,
                   tickerStopped, doneClosed, gauge, hcall>>
    /\ UNCHANGED <<lastStarted, drawn>>

\* TTY Close: h.wg.Wait(), fmt.Print("\n"), and Close returns
CCloseWait ==
    /\ cpc = "closewait"
    /\ rpc = "exited"
    /\ newlines' = newlines + 1
    /\ hstate' = "closed"
    /\ closes' = closes + 1
    /\ cpc' = "done"
    /\ UNCHANGED <<manifest, fs, result, layersToDownload, legacyFallback, cur,
                   downloadsCompleted, extracted, schedVars, binPath, benchVars,
                   layerSize, hkind, mu, progress, currentNode, rpc, tick,
                   tickerStopped, doneClosed, gauge, hcall>>
    /\ UNCHANGED <<lastStarted, drawn>>

\* the README's platform-specific artifact cut after its first n layers
ReporterManifests ==
    {[k \in 1..n |-> ReadmeLayer(TRUE, k)] : n \in 0..MaxReportLayers}

InitReporter ==
    /\ StartState(ReporterManifests, "start", EmptyFS)
    /\ BenchIdle
    /\ ReporterStart({"tty", "text"})

NextReporter ==
    \/ Coordinator
    \/ CCloseStop
    \/ CCloseWait
    \/ \E w \in Workers : Worker(w)
    \/ ESend
    \/ EClose
    \/ KClose
    \/ \E t \in Callers : HLock(t)
    \/ \E t \in Callers : HBody(t)
    \/ Tick
    \/ RSelectTick
    \/ RSelectDone
    \/ RLock
    \/ RBody

SpecReporter == InitReporter /\ [][NextReporter]_vars

\* ------------------------------------------------------------------------
\* A tracked transfer on its own: each worker fetches one layer through a
\* progressTracker (oci.go:295-323), between the handler calls of lines 185
\* and 194.  The reader may deliver more or fewer bytes than the descriptor
\* declares.
\* ------------------------------------------------------------------------
DeclaredSizes == <<3, 1>>

TrackerRead_Reset(pt, n, due) ==
    [pt |-> [pt EXCEPT !.bytesRead = n], update |-> n > 0 /\ due]

\* progressTracker.Read when the wrapped reader returns n bytes; due is
\* now.Sub(pt.lastUpdate) >= pt.updateFreq
TrackerRead(pt, n, due) ==
    [pt |-> [pt EXCEPT !.bytesRead = IF n > 0 THEN @ + n ELSE @],
     update |-> n > 0 /\ due]

transferVars ==
    <<manifest, fs, cpc, result, layersToDownload, legacyFallback, cur,
      downloadsCompleted, extracted, schedVars, binPath, xp, xruns, xerr,
      locVars, sideVars>>

\* oci.go:185: handler.OnNodeDownloading(layer), then the fetch begins
PStart(w) ==
    /\ tracker[w].state = "new"
    /\ Idle(w)
    /\ Calls(w, "OnNodeDownloading", w, 0)
    /\ tracker' = [tracker EXCEPT ![w].state = "reading"]
    /\ UNCHANGED <<reported, handlerVars, transferVars>>

\* one Read of the tracker: the reader returns n bytes, and perhaps the end
PRead(w) ==
    /\ tracker[w].state = "reading"
    /\ Idle(w)
    /\ \E n \in 0..(MaxBytes - tracker[w].bytesRead), due \in BOOLEAN, eof \in BOOLEAN :
         LET r == TrackerRead(tracker[w], n, due) IN
         /\ tracker' = [tracker EXCEPT ![w] =
                           [r.pt EXCEPT !.state = IF eof THEN "eof" ELSE "reading"]]
         /\ IF r.update
              THEN /\ Calls(w, "UpdateProgress", tracker[w].key, r.pt.bytesRead)
                   /\ reported' = [reported EXCEPT ![w] = r.pt.bytesRead]
              ELSE UNCHANGED <<hcall, reported>>
    /\ UNCHANGED <<handlerVars, transferVars>>

\* oci.go:194: handler.OnNodeDownloaded(layer)
PDone(w) ==
    /\ tracker[w].state = "eof"
    /\ Idle(w)
    /\ Calls(w, "OnNodeDownloaded", w, 0)
    /\ tracker' = [tracker EXCEPT ![w].state = "fetched"]
    /\ UNCHANGED <<reported, handlerVars, transferVars>>

\* The TTY handler; the trackers are made with the key of their layer's
\* record, or with a digest string that is no key of h.progress (0).
InitProgress ==
    /\ StartState({[k \in Workers |-> ReadmeLayer(TRUE, k)]}, "transfer", EmptyFS)
    /\ xp = NoData
    /\ xruns = 0
    /\ xerr = FALSE
    /\ \E short \in BOOLEAN :
         tracker = [w \in Workers |->
                      [key |-> IF short THEN w ELSE 0, bytesRead |-> 0,
                       state |-> "new"]]
    /\ reported = [w \in Workers |-> 0 - 1]
    /\ LocatorIdle
    /\ HandlersIdle
    /\ layerSize = [w \in Workers |-> DeclaredSizes[((w - 1) % Len(DeclaredSizes)) + 1]]
    /\ hkind = "tty"
    /\ hstate = "open"
    /\ mu = {}
    /\ hcall = [t \in Callers |-> NoCall]
    /\ progress = [l \in Workers |-> NoProgress]
    /\ currentNode = 0
    /\ rpc = "select"
    /\ tick = FALSE
    /\ tickerStopped = FALSE
    /\ doneClosed = FALSE
    /\ closes = 0
    /\ gauge = NoGauge
    /\ newlines = 0
    /\ lastStarted = 0
    /\ drawn = 0

NextProgress ==
    \/ \E w \in Workers : PStart(w)
    \/ \E w \in Workers : PRead(w)
    \/ \E w \in Workers : PDone(w)
    \/ \E t \in Callers : HLock(t)
    \/ \E t \in Callers : HBody(t)
    \/ Tick
    \/ RSelectTick
    \/ RLock
    \/ RBody

SpecProgress == InitProgress /\ [][NextProgress]_vars

\* ------------------------------------------------------------------------
\* The locator on its own: lines 41-50 and 75-80 on the locators a user can
\* write.  A string is the sequence of its parts; the separators "/", ":"
\* and "@" are parts of their own.
\* ------------------------------------------------------------------------
\* contains (oci.go:487-494)
contains(str, substr) ==
    \E i \in 0..(Len(str) - Len(substr)) :
        SubSeq(str, i + 1, i + Len(substr)) = substr

\* lastIndexOf (oci.go:497-505): the index counts from 0
lastIndexOf(str, substr) ==
    LET hits == {i \in 0..(Len(str) - Len(substr)) :
                    SubSeq(str, i + 1, i + Len(substr)) = substr}
    IN  IF hits = {} THEN 0 - 1
        ELSE CHOOSE i \in hits : \A j \in hits : j <= i

DefaultRegistry == <<"docker.io", "/">>
DefaultTag == <<":", "latest">>

\* oci.go:41-50
Normalize(r) ==
    LET withHost == IF ~contains(r, <<"/">>) THEN DefaultRegistry \o r ELSE r
    IN  IF ~contains(withHost, <<":">>) THEN withHost \o DefaultTag ELSE withHost

\* oci.go:77-80
TagOf(r) ==
    LET idx == lastIndexOf(r, <<":">>)
    IN  IF idx >= 0 THEN SubSeq(r, idx + 2, Len(r)) ELSE <<"latest">>

\* the locators: an optional registry host with an optional port, a
\* repository path, and an optional tag or digest
Hosts == {<<>>, <<"ghcr.io", "/">>, <<"localhost", ":", "5000", "/">>}
RECURSIVE RepoPaths(_)
RepoPaths(n) ==
    IF n = 1 THEN {<<"lite-ci">>, <<"sourceplane">>}
    ELSE RepoPaths(n - 1) \cup
         {q \o <<"/", name>> : q \in RepoPaths(n - 1), name \in {"lite-ci", "sourceplane"}}
Suffixes ==
    {<<>>, <<":", "v0.2.0">>, <<":", "latest">>, <<"@", "sha256", ":", "a0544b318">>}
Locators ==
    {h \o q \o x : h \in Hosts, q \in RepoPaths(MaxRepoSegments), x \in Suffixes}

InitLocator ==
    /\ StartState({<<>>}, "locator", EmptyFS)
    /\ xp = NoData
    /\ xruns = 0
    /\ xerr = FALSE
    /\ TrackersIdle
    /\ imageRef \in Locators
    /\ ref = <<>>
    /\ tag = <<>>
    /\ lpc = "start"
    /\ HandlersIdle
    /\ ReporterHidden

LNormalize ==
    /\ lpc = "start"
    /\ ref' = Normalize(imageRef)
    /\ lpc' = "normalized"
    /\ UNCHANGED <<imageRef, tag, xp, xruns, xerr, tracker, reported, binPath,
                   repVars, coordVars, schedVars, sideVars>>

LTag ==
    /\ lpc = "normalized"
    /\ tag' = TagOf(ref)
    /\ lpc' = "resolve"
    /\ UNCHANGED <<imageRef, ref, xp, xruns, xerr, tracker, reported, binPath,
                   repVars, coordVars, schedVars, sideVars>>

NextLocator ==
    \/ LNormalize
    \/ LTag

SpecLocator == InitLocator /\ [][NextLocator]_vars

\* ------------------------------------------------------------------------
\* The status handlers on their own (part_001:42-128, 132-372):
\* NewStatusHandler chooses one of them by looking at os.Stdout, and a
\* handler of each kind is given the same calls.  A digest string is the
\* sequence of its characters; h.progress is a map from strings.
\* ------------------------------------------------------------------------
\* "sha256:" and 64 hexadecimal digits, the first k - 1 of them "a" and the
\* others "b"
Digest(k) ==
    <<"s", "h", "a", "2", "5", "6", ":">> \o
        [i \in 1..64 |-> IF i < k THEN "a" ELSE "b"]
\* the descriptors of three layers; the digests of the first two have their
\* first nine hexadecimal digits in common
Descs == {[digest |-> Digest(12 - k), size |-> k] : k \in 1..3}

\* desc.Digest.String()[:16]
digestStr(desc) == SubSeq(desc.digest, 1, 16)

\* isTerminal (part_001:367-371)
isTerminal(fd) == fd = 1 \/ fd = 2

\* os.Stdout is the file of descriptor 1, whatever the process was started
\* with behind it
Stdouts == {[fd |-> 1, device |-> d] : d \in {"terminal", "pipe", "file"}}

\* NewStatusHandler (part_001:359-365): the kind of the handler returned
NewStatusHandler(out) == IF isTerminal(out.fd) THEN "tty" ELSE "text"

\* &NodeProgress{Descriptor: desc, Status: "Downloading", ...}
NewNodeProgress(desc) ==
    [Descriptor |-> desc, Status |-> "Downloading", BytesRead |-> 0]

\* m[k] = v on a map
MapPut(m, k, v) == [x \in DOMAIN m \cup {k} |-> IF x = k THEN v ELSE m[x]]
\* if p, ok := m[k]; ok { p.Status = st }
SetStatus(m, k, st) ==
    IF k \in DOMAIN m THEN [m EXCEPT ![k].Status = st] ELSE m
\* if p, ok := m[k]; ok { p.BytesRead = n }
SetBytesRead(m, k, n) ==
    IF k \in DOMAIN m THEN [m EXCEPT ![k].BytesRead = n] ELSE m

EmptyMap == [x \in {} |-> NewNodeProgress(NoDesc)]
NewTextStatusHandler == [progress |-> EmptyMap]
NewTTYStatusHandler == [progress |-> EmptyMap, currentNode |-> <<>>]

\* the methods of TextStatusHandler (part_001:56-125) on the handler h
TextCall(h, e) ==
    LET k == digestStr(e.desc) IN
    CASE e.op = "OnNodeDownloading" ->
           [h EXCEPT !.progress = MapPut(@, k, NewNodeProgress(e.desc))]
      [] e.op = "OnNodeDownloaded" ->
           [h EXCEPT !.progress = SetStatus(@, k, "Downloaded")]
      [] e.op = "OnNodeProcessing" ->
           [h EXCEPT !.progress = SetStatus(@, k, "Processing")]
      [] e.op = "OnNodeRestored" ->
           [h EXCEPT !.progress = SetStatus(@, k, "Restored")]
      [] e.op = "OnNodeSkipped" ->
           [h EXCEPT !.progress = SetStatus(@, k, "Skipped")]
      [] e.op = "UpdateProgress" ->
           [h EXCEPT !.progress = SetBytesRead(@, e.digest, e.bytesRead)]

TTYCall_NoProcessing(h, e) ==
    LET k == digestStr(e.desc) IN
    CASE e.op = "OnNodeDownloading" ->
           [h EXCEPT !.currentNode = k,
                     !.progress = MapPut(@, k, NewNodeProgress(e.desc))]
      [] e.op = "OnNodeDownloaded" ->
           [h EXCEPT !.progress = SetStatus(@, k, "Downloaded")]
      [] e.op = "OnNodeProcessing" -> h
      [] e.op = "OnNodeRestored" ->
           [h EXCEPT !.progress = SetStatus(@, k, "Restored"),
                     !.currentNode = <<>>]
      [] e.op = "OnNodeSkipped" ->
           [h EXCEPT !.progress = SetStatus(@, k, "Skipped")]
      [] e.op = "UpdateProgress" ->
           [h EXCEPT !.progress = SetBytesRead(@, e.digest, e.bytesRead)]

\* the methods of TTYStatusHandler (part_001:271-348) on the handler h
TTYCall(h, e) ==
    LET k == digestStr(e.desc) IN
    CASE e.op = "OnNodeDownloading" ->
           [h EXCEPT !.currentNode = k,
                     !.progress = MapPut(@, k, NewNodeProgress(e.desc))]
      [] e.op = "OnNodeDownloaded" ->
           [h EXCEPT !.progress = SetStatus(@, k, "Downloaded")]
      [] e.op = "OnNodeProcessing" ->
           [h EXCEPT !.progress = SetStatus(@, k, "Processing")]
      [] e.op = "OnNodeRestored" ->
           [h EXCEPT !.progress = SetStatus(@, k, "Restored"),
                     !.currentNode = <<>>]
      [] e.op = "OnNodeSkipped" ->
           [h EXCEPT !.progress = SetStatus(@, k, "Skipped")]
      [] e.op = "UpdateProgress" ->
           [h EXCEPT !.progress = SetBytesRead(@, e.digest, e.bytesRead)]

\* the calls the StatusHandler interface allows (part_001:16-24); the string
\* UpdateProgress is given is a whole digest or the key of a record
LifecycleOps ==
    {"OnNodeDownloading", "OnNodeDownloaded", "OnNodeProcessing",
     "OnNodeRestored", "OnNodeSkipped"}
Events ==
    {[op |-> o, desc |-> d, digest |-> <<>>, bytesRead |-> 0] :
        o \in LifecycleOps, d \in Descs}
    \cup
    {[op |-> "UpdateProgress", desc |-> NoDesc, digest |-> k, bytesRead |-> n] :
        k \in {d.digest : d \in Descs} \cup {digestStr(d) : d \in Descs},
        n \in 1..2}

InitHandlers ==
    /\ StartState({<<>>}, "handlers", EmptyFS)
    /\ xp = NoData
    /\ xruns = 0
    /\ xerr = FALSE
    /\ TrackersIdle
    /\ LocatorIdle
    /\ stdout \in Stdouts
    /\ selected = "none"
    /\ handlers = <<>>
    /\ event = NoEvent
    /\ ReporterHidden

handlerBenchFrame ==
    <<xp, xruns, xerr, tracker, reported, locVars, binPath, repVars,
      coordVars, schedVars>>

\* oci.go:36: handler := NewStatusHandler(); next to the handler returned
\* stands a handler of the other kind
SSelect ==
    /\ selected = "none"
    /\ selected' = NewStatusHandler(stdout)
    /\ handlers' = [tty |-> NewTTYStatusHandler, text |-> NewTextStatusHandler]
    /\ UNCHANGED <<stdout, event, handlerBenchFrame>>

\* one call of a handler method, made on both handlers
SCall ==
    /\ selected # "none"
    /\ \E e \in Events :
         /\ handlers' = [tty |-> TTYCall(handlers.tty, e),
                         text |-> TextCall(handlers.text, e)]
         /\ event' = e
    /\ UNCHANGED <<stdout, selected, handlerBenchFrame>>

NextHandlers ==
    \/ SSelect
    \/ SCall

SpecHandlers == InitHandlers /\ [][NextHandlers]_vars

\* The classification pass alone, from the state in which PullProviderOCI
\* has parsed the manifest, over the larger manifests.
InitClassify ==
    /\ StartState(Manifests, "classify", [EmptyFS EXCEPT ![<<>>] = DirEnt(Mode0755)])
    /\ BenchIdle
    /\ ReporterHidden

NextClassify == CClassify

SpecClassify == InitClassify /\ [][NextClassify]_vars

\* ------------------------------------------------------------------------
\* The content extractor on its own: extractLayerContent is called with
\* one payload on one installation root, and called again with the same
\* bytes.
\* ------------------------------------------------------------------------
\* a tar header mode with the setuid bit (04755)
ModeSetuid0755 == 2048 + Mode0755
TarOther(name) == [typeflag |-> "symlink", name |-> name, mode |-> Mode0755, data |-> NoBytes]

\* The tar streams: the entries tr.Next() yields.
ArchiveEntries ==
    {<<>>,
     <<TarDir(<<"assets">>),
       TarReg(<<"assets", "schema.json">>, Mode0644, <<"layer", 1>>)>>,
     <<TarDir(<<"oci">>), TarDir(<<"oci", "bin">>),
       TarReg(<<"oci", "bin", "entrypoint">>, Mode0755, <<"layer", 1>>)>>,
     <<TarReg(<<"bin", "entrypoint">>, ModeSetuid0755, <<"layer", 1>>),
       TarReg(<<"thin.provider.yaml">>, Mode0644, <<"layer", 1>>)>>,
     <<TarReg(<<"bin", "linux", "amd64", "thin">>, Mode0755, <<"layer", 1>>)>>,
     <<TarOther(<<"bin", "thin">>),
       TarReg(<<"bin", "provider">>, Mode0755, <<"layer", 1>>)>>}

\* len(layerData) and layerData[0] of the payloads
PayloadLens ==
    {0, 1, 200, 300, 512, 2048, LargeBinaryThreshold, LargeBinaryThreshold + 1, 5000000}
FirstBytes == {0, 31, 32, 110, 126, 127}

\* The payloads: every combination of what the sniffing looks at that a
\* byte string can have.  The gzip magic makes the first byte 0x1f,
\* "ustar" at offset 257 needs 262 bytes, and only a payload that is
\* handed to the tar reader has a tar stream.
Payloads ==
    {p \in [gzip : BOOLEAN, ustar : BOOLEAN, len : PayloadLens, first : FirstBytes,
            entries : ArchiveEntries, bad : BOOLEAN, data : {<<"layer", 1>>}] :
        /\ p.len = 0 => p.first = 0
        /\ p.gzip => (p.first = 31 /\ p.len >= 2)
        /\ p.ustar => p.len >= 262
        /\ ~(p.gzip \/ (p.ustar /\ p.len >= 512)) => (p.entries = <<>> /\ ~p.bad)}

OldBytes == <<"old", 0>>
\* The installation roots extractLayerContent is called on: the directory
\* of line 31 alone, a root that holds an earlier installation with other
\* modes, a root where bin is a file, and a root with the nested directory.
RootOnly == [EmptyFS EXCEPT ![<<>>] = DirEnt(Mode0755)]
Roots ==
    {RootOnly,
     [RootOnly EXCEPT ![<<"bin">>] = DirEnt(Mode0755),
                      ![<<"bin", "entrypoint">>] = FileEnt(Mode0644, OldBytes),
                      ![<<"bin", "provider">>] = FileEnt(Mode0644, OldBytes),
                      ![<<"thin.provider.yaml">>] = FileEnt(Mode0755, OldBytes),
                      ![<<"assets">>] = DirEnt(Mode0755),
                      ![<<"assets", "schema.json">>] = FileEnt(Mode0755, OldBytes)],
     [RootOnly EXCEPT ![<<"bin">>] = FileEnt(Mode0644, OldBytes)],
     [RootOnly EXCEPT ![<<"oci">>] = DirEnt(Mode0755),
                      ![<<"oci", "bin">>] = DirEnt(Mode0755),
                      ![<<"oci", "bin", "entrypoint">>] = FileEnt(Mode0644, OldBytes)]}

InitExtract ==
    /\ \E f \in Roots : StartState({<<>>}, "extract", f)
    /\ xp \in Payloads
    /\ xruns = 0
    /\ xerr = FALSE
    /\ TrackersIdle
    /\ LocatorIdle
    /\ HandlersIdle
    /\ ReporterHidden

\* oci.go:226: extractLayerContent(result.data, providerBaseDir); the
\* second case is an error of the operating system at the first write
XExtract ==
    /\ xruns < MaxRuns
    /\ \/ LET r == extractLayerContent(xp, fs) IN
          /\ fs' = r.fs
          /\ xerr' = r.err
       \/ /\ TouchesDisk(xp)
          /\ fs' = fs
          /\ xerr' = TRUE
    /\ xruns' = xruns + 1
    /\ UNCHANGED <<xp, tracker, reported, locVars, sideVars, binPath, repVars, manifest, cpc, result, layersToDownload, legacyFallback,
                   cur, downloadsCompleted, extracted, schedVars>>

NextExtract == XExtract

SpecExtract == InitExtract /\ [][NextExtract]_vars

\* ------------------------------------------------------------------------
\* The layout finalizer on its own: lines 243-292 on the roots the
\* extraction of archives can leave, with any of the binary names present.
\* ------------------------------------------------------------------------
CandidateSet == {BinaryCandidates[k] : k \in 1..Len(BinaryCandidates)}

\* the root that holds the files S, not executable, and their directories
RootWith(S, yaml) ==
    [q \in Paths |->
        IF q \in S THEN FileEnt(Mode0644, OldBytes)
        ELSE IF q = <<>> \/ \E c \in S : Len(q) < Len(c) /\ IsUnder(q, c)
          THEN DirEnt(Mode0755)
        ELSE IF q = <<"thin.provider.yaml">> /\ yaml THEN FileEnt(Mode0644, OldBytes)
        ELSE NoEnt]

\* Roots with a nested oci/assets/schema.json of layer 1 next to an
\* assets/schema.json of the root: an older file with other permission
\* bits, and a directory of that name.
NestedAssets ==
    [RootOnly EXCEPT ![<<"oci">>] = DirEnt(Mode0755),
                     ![<<"oci", "assets">>] = DirEnt(Mode0755),
                     ![<<"oci", "assets", "schema.json">>] =
                         FileEnt(Mode0644, <<"layer", 1>>),
                     ![<<"assets">>] = DirEnt(Mode0755)]
NestedRoots ==
    {NestedAssets,
     [NestedAssets EXCEPT ![<<"assets", "schema.json">>] = FileEnt(Mode0755, OldBytes)],
     [NestedAssets EXCEPT ![<<"assets", "schema.json">>] = DirEnt(Mode0755)]}

\* Roots of an archive of the legacy layout that holds the provider
\* manifest next to its bin directory: oci/thin.provider.yaml of layer 1,
\* with and without oci/bin/entrypoint.
NestedManifestRoots ==
    {[RootOnly EXCEPT ![<<"oci">>] = DirEnt(Mode0755),
                      ![<<"oci", "thin.provider.yaml">>] =
                          FileEnt(Mode0644, <<"layer", 1>>)],
     [RootOnly EXCEPT ![<<"oci">>] = DirEnt(Mode0755),
                      ![<<"oci", "thin.provider.yaml">>] =
                          FileEnt(Mode0644, <<"layer", 1>>),
                      ![<<"oci", "bin">>] = DirEnt(Mode0755),
                      ![<<"oci", "bin", "entrypoint">>] =
                          FileEnt(Mode0755, <<"layer", 1>>)]}

FinalizeRoots ==
    {RootWith(S, yaml) : S \in SUBSET CandidateSet, yaml \in BOOLEAN}
      \cup Roots \cup NestedRoots \cup NestedManifestRoots

InitFinalize ==
    /\ \E f \in FinalizeRoots : StartState({<<>>}, "finalize", f)
    /\ BenchIdle
    /\ ReporterHidden

NextFinalize == CFinalize

SpecFinalize == InitFinalize /\ [][NextFinalize]_vars

\* ------------------------------------------------------------------------
\* Properties
\* ------------------------------------------------------------------------
TypeOK ==
    /\ cpc \in {"start", "resolve", "classify", "recv", "extract", "config",
                "finalize", "done"}
    /\ wg \in 0..NumWorkers

\* the indices of the layers of the manifest with media type mt
LayersOf(mt) == {i \in 1..Len(manifest) : manifest[i] = mt}
SeqToSet(q) == {q[k] : k \in 1..Len(q)}

\* the classification pass has run
ClassifyErrors == {"no compatible provider layers", "provider manifest layer not found"}
\* the errors returned before the manifest is classified
EarlyErrors ==
    {"failed to create provider directory", "failed to resolve image",
     "failed to fetch manifest", "failed to parse manifest"}
ClassifyFailed == cpc = "done" /\ result \in ClassifyErrors
ClassifyPassed == Len(layersToDownload) > 0
Classified == ClassifyFailed \/ ClassifyPassed

\* no fetch was started and no worker runs
NoFetchStarted ==
    /\ \A i \in 1..Len(manifest) : fetched[i] = 0
    /\ \A w \in Workers : wpc[w] = "unborn"

\* C1: a manifest with exactly one provider layer, exactly one assets layer
\* and exactly one binary layer of the current platform, all other layers
\* being binaries of other platforms, is classified into exactly these three
\* layers, and the legacy fallback is not taken.
C1_ExactlyThreeSelected ==
    (/\ Classified
     /\ Cardinality(LayersOf(ProviderMediaType)) = 1
     /\ Cardinality(LayersOf(AssetsMediaType)) = 1
     /\ Cardinality(LayersOf(binaryMediaType)) = 1
     /\ \A i \in 1..Len(manifest) :
           manifest[i] \in {ProviderMediaType, AssetsMediaType, binaryMediaType,
                            BinMediaType(otherPlatform)})
    => /\ ClassifyPassed
       /\ ~legacyFallback
       /\ Len(layersToDownload) = 3
       /\ SeqToSet(layersToDownload) =
            LayersOf(ProviderMediaType) \cup LayersOf(AssetsMediaType)
              \cup LayersOf(binaryMediaType)

C1_Witness ==
    /\ ClassifyPassed
    /\ Len(manifest) = 4
    /\ Cardinality(LayersOf(ProviderMediaType)) = 1
    /\ Cardinality(LayersOf(AssetsMediaType)) = 1
    /\ Cardinality(LayersOf(binaryMediaType)) = 1
    /\ Cardinality(LayersOf(BinMediaType(otherPlatform))) = 1
    /\ Len(layersToDownload) = 3

\* C2: a manifest without a layer of the current platform's binary media
\* type is classified by the legacy fallback, and the download set is the
\* manifest's layers that are not empty placeholders, in manifest order.
C2_NoBinaryMeansLegacy ==
    (Classified /\ LayersOf(binaryMediaType) = {})
    => /\ ClassifyPassed
       /\ legacyFallback
       /\ layersToDownload = AllNonEmpty(manifest, 1)

C4_LegacyArtifactAccepted ==
    (/\ Classified
     /\ LayersOf(GenericMediaType) # {}
     /\ \A i \in 1..Len(manifest) :
           manifest[i] \in {GenericMediaType, EmptyMediaType})
    => /\ ClassifyPassed
       /\ legacyFallback
       /\ layersToDownload = AllNonEmpty(manifest, 1)

\* ---- scheduler ----------------------------------------------------------
AnyFailedSent == \E w \in Workers : failedSent[w] > 0
Holding == {w \in Workers : wpc[w] \in {"fetching", "sendok", "sendfail"}}
FetchesInProgress == {w \in Workers : wpc[w] = "fetching"}
BackgroundDone ==
    /\ \A w \in Workers : wpc[w] = "done"
    /\ jobsClosed
    /\ resultsClosed
    /\ kpc = "done"
CoordinatorFailedFetch == cpc = "done" /\ result = "failed to fetch layer"
PastLoop ==
    \/ cpc \in {"config", "finalize"}
    \/ cpc = "done" /\ result \in {"ok", "failed to create directory bin",
                                   "failed to create directory assets"}

\* C5: a failed fetch makes the install fail.  The coordinator returns the
\* fetch error at the failed outcome it receives, nothing is extracted or
\* finalized after that return, the loop is never left and success is never
\* reported once a worker has sent a failed outcome, and a failed outcome
\* leads to an error return.
C5_FetchFailureIsFatal ==
    /\ [](AnyFailedSent => (result # "ok" /\ ~PastLoop))
    /\ [][(cpc = "recv" /\ Len(results) > 0 /\ Head(results).err
           /\ results' = Tail(results))
          => (cpc' = "done" /\ result' = "failed to fetch layer"
              /\ fs' = fs /\ extracted' = extracted)]_vars
    /\ [][CoordinatorFailedFetch
          => (cpc' = cpc /\ result' = result /\ fs' = fs
              /\ extracted' = extracted
              /\ downloadsCompleted' = downloadsCompleted)]_vars
    /\ (AnyFailedSent ~> (cpc = "done" /\ result \notin {"", "ok"}))

\* a failed outcome was received after another layer had been extracted,
\* while the other worker is still fetching
C5_Witness ==
    /\ CoordinatorFailedFetch
    /\ downloadsCompleted >= 1
    /\ FetchesInProgress # {}

\* C6: at most two layer fetches are in progress at any time.
C6_AtMostTwoFetches == Cardinality(FetchesInProgress) <= 2

\* two fetches in progress while a third layer waits in the queue
C6_Witness ==
    /\ Cardinality(FetchesInProgress) = 2
    /\ Len(jobs) >= 1

\* C7: the error path does not deadlock.  The results channel always has
\* room for the outcome of every worker that holds a layer and the jobs
\* channel for every layer not yet enqueued, and after the coordinator has
\* returned on a failed outcome the workers exit, the queue is closed and
\* the results channel is closed.
C7_ErrorPathNoDeadlock ==
    /\ [](Len(results) + Cardinality(Holding) <= ResultsCap)
    /\ [](epc \in 1..Len(layersToDownload) => Len(jobs) < JobsCap)
    /\ (CoordinatorFailedFetch ~> BackgroundDone)

\* everything has ended after a fetch error and an outcome nobody will
\* receive is left in the results channel
C7_Witness ==
    /\ CoordinatorFailedFetch
    /\ BackgroundDone
    /\ Len(results) > 0

\* C8: without a failure the coordinator leaves the result loop, and it
\* leaves it only when every layer of the download set was fetched once
\* and extracted once, the queue was closed after the last task and the
\* results channel after the exit of both workers.
C8_SuccessPath ==
    /\ [](\A i \in 1..Len(manifest) : fetched[i] <= 1 /\ extracted[i] <= 1)
    /\ [](PastLoop =>
            /\ \A k \in 1..Len(layersToDownload) :
                  /\ fetched[layersToDownload[k]] = 1
                  /\ extracted[layersToDownload[k]] = 1
            /\ downloadsCompleted = Len(layersToDownload)
            /\ BackgroundDone)
    /\ [](jobsClosed => epc = Len(layersToDownload) + 1)
    /\ [](resultsClosed => \A w \in Workers : wpc[w] = "done")
    /\ [](CoordinatorFailedFetch => AnyFailedSent)
    /\ (ClassifyPassed ~>
          (PastLoop \/ AnyFailedSent \/ result = "failed to extract layer"))

C8_Witness ==
    /\ cpc = "done"
    /\ result = "ok"
    /\ Len(layersToDownload) = 3
    /\ \A k \in 1..3 : extracted[layersToDownload[k]] = 1

\* C9: a worker whose fetch failed sends one failed outcome and ends
\* without taking another task; its failure changes nothing for the other
\* worker, which ends only by its own failure or at the closed and empty
\* queue and can take a task whenever it is idle and the queue is not
\* empty.
C9_FailedWorkerStopsAlone ==
    /\ [](\A w \in Workers :
            /\ failedSent[w] <= 1
            /\ (wpc[w] = "done" =>
                  (failedSent[w] = 1 \/ (jobsClosed /\ Len(jobs) = 0)))
            /\ ((wpc[w] = "idle" /\ Len(jobs) > 0) => ENABLED WTake(w)))
    /\ [][\A w \in Workers :
            /\ (wpc[w] = "sendfail" /\ wpc'[w] # "sendfail")
               => /\ wpc'[w] = "done"
                  /\ failedSent'[w] = 1
                  /\ results' = Append(results, [layer |-> wlayer[w],
                                                 data |-> NoData, err |-> TRUE])
            /\ failedSent[w] = 1 => (wpc'[w] = "done" /\ wlayer'[w] = 0)
            /\ (wpc[w] \in {"fetching", "sendfail"}
                /\ wpc'[w] \in {"sendfail", "done"} /\ wpc'[w] # wpc[w])
               => /\ \A v \in Workers \ {w} :
                        wpc'[v] = wpc[v] /\ wlayer'[v] = wlayer[v]
                  /\ jobs' = jobs
                  /\ jobsClosed' = jobsClosed]_vars

\* a failed outcome was sent, the other worker sent a payload after it and
\* is fetching its next layer
C9_Witness ==
    /\ Len(results) >= 2
    /\ results[1].err
    /\ ~results[2].err
    /\ \E w, v \in Workers :
          /\ failedSent[w] = 1
          /\ wpc[w] = "done"
          /\ wpc[v] = "fetching"

\* C10: the installation root is changed by steps of the coordinator only,
\* never by a step of a worker, and the layer being extracted is held by
\* no worker.
C10_OnlyCoordinatorWrites ==
    /\ [](cpc = "extract" =>
            /\ cur.layer # 0
            /\ \A w \in Workers : wlayer[w] # cur.layer)
    /\ [][fs' # fs =>
            /\ cpc \in {"start", "extract", "config", "finalize"}
            /\ cpc' # cpc
            /\ wpc' = wpc
            /\ wlayer' = wlayer
            /\ wdata' = wdata
            /\ jobs' = jobs
            /\ results' = results]_vars

\* a layer has been written to the root while a worker is fetching
C10_Witness ==
    /\ cpc = "recv"
    /\ downloadsCompleted >= 1
    /\ \E p \in Paths : Len(p) > 0 /\ fs[p].t # "none"
    /\ FetchesInProgress # {}

\* ---- content extractor ---------------------------------------------------
\* a call of extractLayerContent has returned in this step
Extracted == xruns' = xruns + 1
\* the payload is handed to the tar reader: gzip magic at the start, or a
\* header block with "ustar" at offset 257
TarLike(p) == p.gzip \/ (p.ustar /\ p.len >= 512)
Ancestors(q) == {SubSeq(q, 1, k) : k \in 0..Len(q)}
\* the paths an archive names, with the directories above them
NamedBy(entries) ==
    UNION {Ancestors(entries[k].name) : k \in 1..Len(entries)}
OnlyChanged(S) == \A q \in Paths \ S : fs'[q] = fs[q]

\* C12: extractLayerContent handles a payload by the first rule that
\* matches: gzip magic or a tar header -> the entries of the archive are
\* extracted and nothing else is touched; otherwise more than 4,000,000
\* bytes -> the bytes are written to bin/entrypoint; otherwise a printable
\* first byte -> the bytes are written to thin.provider.yaml; otherwise
\* nothing is written and no error is returned.
C12_SniffingOrder ==
    [][Extracted =>
        LET large == xp.len > 4000000
            printable == xp.len > 0 /\ xp.first \in 32..126
        IN  /\ TarLike(xp) =>
                 /\ OnlyChanged(NamedBy(xp.entries))
                 /\ ~xerr' =>
                       \A k \in 1..Len(xp.entries) :
                          /\ xp.entries[k].typeflag = "reg" =>
                                /\ fs'[xp.entries[k].name].t = "file"
                                /\ fs'[xp.entries[k].name].data = xp.entries[k].data
                          /\ xp.entries[k].typeflag = "dir" =>
                                fs'[xp.entries[k].name].t = "dir"
            /\ (~TarLike(xp) /\ large) =>
                 /\ OnlyChanged({<<"bin">>, <<"bin", "entrypoint">>})
                 /\ ~xerr' =>
                       /\ fs'[<<"bin">>].t = "dir"
                       /\ fs'[<<"bin", "entrypoint">>].t = "file"
                       /\ fs'[<<"bin", "entrypoint">>].data = xp.data
            /\ (~TarLike(xp) /\ ~large /\ printable) =>
                 /\ OnlyChanged({<<"thin.provider.yaml">>})
                 /\ ~xerr' =>
                       /\ fs'[<<"thin.provider.yaml">>].t = "file"
                       /\ fs'[<<"thin.provider.yaml">>].data = xp.data
            /\ (~TarLike(xp) /\ ~large /\ ~printable) =>
                 /\ fs' = fs
                 /\ ~xerr']_vars

\* 5,000,000 raw bytes that start with a printable character are in
\* bin/entrypoint and not in thin.provider.yaml
C12_Witness ==
    /\ xruns = 1
    /\ ~xerr
    /\ xp.len = 5000000
    /\ ~xp.gzip
    /\ ~xp.ustar
    /\ xp.first = 110
    /\ fs[<<"bin", "entrypoint">>] = FileEnt(Mode0755, xp.data)
    /\ fs[<<"thin.provider.yaml">>].t = "none"

\* C13: after an extraction that succeeded, extracting the same bytes
\* again leaves every path of the installation root as it is: the same
\* files and directories, contents and permissions.
C13_ExtractionIdempotent ==
    [][(Extracted /\ xruns >= 1 /\ ~xerr) => fs' = fs]_vars

\* an archive was extracted twice over an earlier installation
C13_Witness ==
    /\ xruns = 2
    /\ ~xerr
    /\ xp.gzip
    /\ Len(xp.entries) = 2
    /\ fs[<<"bin", "entrypoint">>].data = xp.data
    /\ fs[<<"assets", "schema.json">>].data = OldBytes

\* the permission bits (rwx for owner, group, others) of a header's mode
PermissionBits(mode) == mode % 512

\* C14: after a tar extraction that succeeded, the file at the path of
\* every regular-file entry has the permission bits of the entry's
\* header, whether the file was created or existed with another mode.
C14_TarKeepsPermissions ==
    [][(Extracted /\ ~xerr' /\ TarLike(xp)) =>
        \A k \in 1..Len(xp.entries) :
           xp.entries[k].typeflag = "reg" =>
              /\ fs'[xp.entries[k].name].t = "file"
              /\ fs'[xp.entries[k].name].mode = PermissionBits(xp.entries[k].mode)]_vars

\* an executable entry replaced a file that was not executable
C14_Witness ==
    /\ xruns = 1
    /\ ~xerr
    /\ TarLike(xp)
    /\ Len(xp.entries) = 2
    /\ fs[<<"bin", "entrypoint">>] = FileEnt(Mode0755, xp.data)
    /\ fs[<<"bin", "provider">>] = FileEnt(Mode0644, OldBytes)

\* ---- errors and finalization -------------------------------------------
\* C18: when the locator is not resolved, the manifest is not parsed or the
\* mandatory layers are missing, the install returns an error, no fetch
\* was started and the installation root is as it was before the call.
C18_NoPartialStateOnEarlyError ==
    (cpc = "done"
     /\ result \in {"failed to resolve image", "failed to parse manifest"}
                    \cup ClassifyErrors)
    => /\ NoFetchStarted
       /\ fs = EmptyFS

\* every layer of the download set was fetched and extracted
AllLayersExtracted ==
    /\ ClassifyPassed
    /\ downloadsCompleted = Len(layersToDownload)
    /\ \A k \in 1..Len(layersToDownload) :
          fetched[layersToDownload[k]] = 1 /\ extracted[layersToDownload[k]] = 1
ManifestFileAbsent == fs[<<"thin.provider.yaml">>].t = "none"
NoBinaryFile ==
    \A q \in {<<"bin", "entrypoint">>, <<"bin", "thin">>, <<"bin", "provider">>,
               <<"bin", "linux", "amd64", "entrypoint">>,
               <<"bin", "linux", "amd64", "thin">>,
               <<"bin", "linux", "amd64", "provider">>} : fs[q].t = "none"

ClaimedOrder ==
    <<<<"bin", "entrypoint">>, <<"bin", "thin">>, <<"bin", "provider">>,
      <<"bin", "linux", "amd64", "entrypoint">>,
      <<"bin", "linux", "amd64", "thin">>,
      <<"bin", "linux", "amd64", "provider">>>>

\* C20: GetPlatformBinaryPath returns the first path of the claimed order
\* that exists and an error exactly when none exists, and the installer
\* sets the mode of the path found to 0755 and of no other path.
C20_FirstExistingBinary ==
    [][(cpc = "finalize" /\ cpc' = "done" /\ result' = "ok") =>
        LET existing == {k \in 1..6 : fs'[ClaimedOrder[k]].t # "none"}
            first == CHOOSE k \in existing : \A j \in existing : k <= j
        IN  /\ binPath'.err <=> existing = {}
            /\ existing # {} =>
                  /\ binPath'.path = ClaimedOrder[first]
                  /\ fs'[ClaimedOrder[first]].t = "file"
                  /\ fs'[ClaimedOrder[first]].mode = 493
            \* without a nested oci directory nothing else is changed
            /\ fs[<<"oci">>].t = "none" =>
                  \A q \in Paths \ {<<"bin">>, <<"assets">>} :
                     IF existing # {} /\ q = ClaimedOrder[first]
                       THEN fs'[q].data = fs[q].data
                       ELSE fs'[q] = fs[q]]_vars

\* bin/thin was found before bin/provider and the nested entrypoint, which
\* keep their modes
C20_Witness ==
    /\ cpc = "done"
    /\ result = "ok"
    /\ binPath = [err |-> FALSE, path |-> <<"bin", "thin">>]
    /\ fs[<<"bin", "entrypoint">>].t = "none"
    /\ fs[<<"bin", "thin">>].mode = Mode0755
    /\ fs[<<"bin", "provider">>] = FileEnt(Mode0644, OldBytes)
    /\ fs[<<"bin", "linux", "amd64", "entrypoint">>] = FileEnt(Mode0644, OldBytes)

\* ------------------------------------------------------------------------
\* C17: whenever PullProviderOCI has returned after the reporter was
\* created, Close has run exactly once; Close never runs twice; once Close
\* of the interactive reporter has returned the render loop has exited, so
\* it renders no more, and the one trailing newline is printed only after
\* the render loop has exited.
\* ------------------------------------------------------------------------
C17_CloseOnceAfterRenderStops ==
    /\ closes <= 1
    /\ (cpc = "done" /\ result # "" /\ hstate # "none") =>
          (closes = 1 /\ hstate = "closed")
    /\ hstate = "closed" => rpc \in {"none", "exited"}
    /\ newlines = (IF hkind = "tty" THEN closes ELSE 0)
    /\ newlines = 1 => rpc = "exited"

\* the interactive reporter was closed after a fetch failed, while a worker
\* was still at work
C17_Witness ==
    /\ hkind = "tty"
    /\ cpc = "done"
    /\ result = "failed to fetch layer"
    /\ closes = 1
    /\ gauge # NoGauge
    /\ \E w \in Workers : wpc[w] # "exited"

\* ------------------------------------------------------------------------
\* C11: the goroutines that are inside an access to h.progress (the body of
\* a handler method of a worker or of the coordinator, or of render) are
\* exactly the holders of h.mu, and there is never more than one of them.
\* ------------------------------------------------------------------------
InAccess ==
    {t \in Callers : hcall[t].pc = "in"}
      \cup (IF rpc = "in" THEN {Renderer} ELSE {})

C11_MapAccessUnderMutex ==
    /\ InAccess = mu
    /\ Cardinality(mu) <= 1

\* render is inside its access while a worker and the coordinator wait for
\* the mutex
C11_Witness ==
    /\ rpc = "in"
    /\ hcall[Coord].pc = "lock"
    /\ \E w \in Workers : hcall[w].pc = "lock"

\* ------------------------------------------------------------------------
\* C15: the values a tracker reports for its layer never decrease from one
\* report to the next, and the bytesRead the reporter stores for a layer
\* never decreases from one step to the next while the layer stays in
\* Downloading status.
\* ------------------------------------------------------------------------
C15_ByteProgressMonotone ==
    [][/\ \A w \in Workers : reported'[w] >= reported[w]
       /\ \A l \in DOMAIN progress :
            (progress[l].status = "Downloading" /\ progress'[l].status = "Downloading")
              => progress'[l].bytesRead >= progress[l].bytesRead]_vars

\* a second, larger report is on its way while the first one is stored
C15_Witness ==
    \E w \in Workers :
        /\ progress[w].status = "Downloading"
        /\ progress[w].bytesRead >= 1
        /\ hcall[w].op = "UpdateProgress"
        /\ hcall[w].bytes > progress[w].bytesRead
        /\ reported[w] = hcall[w].bytes

\* ------------------------------------------------------------------------
\* C16: whatever render draws, the filled part of the bar is between 0 and
\* 20 cells and the percentage is at most 100.00, also when more bytes were
\* read than the descriptor declares; the gauge shows the bytes read as
\* they are stored, and UpdateProgress stores the reported value as it is.
\* ------------------------------------------------------------------------
C16_GaugeClamped ==
    /\ gauge # NoGauge =>
          /\ gauge.filled \in 0..BarLength
          /\ gauge.percent \in 0..10000
          /\ gauge.read \in 0..MaxBytes
    /\ \A w \in Workers :
          (Idle(w) /\ tracker[w].key = w /\ reported[w] >= 0
             /\ progress[w].status # "absent")
            => progress[w].bytesRead = reported[w]
    /\ \A b \in 0..(MaxBytes + 1), sz \in 1..(MaxBytes + 1) :
          /\ Gauge(b, sz).filled <= BarLength
          /\ Gauge(b, sz).percent <= 10000
          /\ Gauge(b, sz).read = b

\* the gauge of a layer for which more bytes are stored than it declares
C16_Witness ==
    \E w \in Workers :
        /\ currentNode = w
        /\ progress[w].status = "Downloading"
        /\ progress[w].bytesRead > progress[w].size
        /\ gauge = [filled |-> BarLength, percent |-> 10000,
                    read |-> progress[w].bytesRead]

\* ------------------------------------------------------------------------
\* The parts of a locator: the registry host is what stands before the
\* first "/", the repository path what follows it, and the tag or digest
\* is what follows the first "@", or else the first ":", of the last path
\* segment.
\* ------------------------------------------------------------------------
IndexOfFirst(str, c) ==
    IF contains(str, <<c>>)
      THEN CHOOSE i \in 1..Len(str) : str[i] = c /\ \A j \in 1..(i - 1) : str[j] # c
      ELSE 0
LastSegment(str) == SubSeq(str, lastIndexOf(str, <<"/">>) + 2, Len(str))
Separators == {"/", ":", "@"}
HasRepositoryPath(str) ==
    LET i == IndexOfFirst(str, "/") IN
    /\ i > 1
    /\ i < Len(str)
    /\ str[i + 1] \notin Separators
HasTagOrDigest(str) ==
    contains(LastSegment(str), <<":">>) \/ contains(LastSegment(str), <<"@">>)
TagOrDigest(str) ==
    LET seg == LastSegment(str)
        at == IndexOfFirst(seg, "@")
        colon == IndexOfFirst(seg, ":")
    IN  IF at > 0 THEN SubSeq(seg, at + 1, Len(seg))
        ELSE SubSeq(seg, colon + 1, Len(seg))

\* ------------------------------------------------------------------------
\* C21: the normalized locator has a repository path and a tag or digest;
\* a locator without "/" begins with the default registry host afterwards,
\* and a locator that carries no tag or digest ends with ":latest"
\* afterwards.
\* ------------------------------------------------------------------------
C21_NormalizedHasRepoAndTag ==
    lpc \in {"normalized", "resolve"} =>
        /\ HasRepositoryPath(ref)
        /\ HasTagOrDigest(ref)
        /\ ~contains(imageRef, <<"/">>) => ref = DefaultRegistry \o SubSeq(ref, 3, Len(ref))
        /\ ~HasTagOrDigest(imageRef) =>
              SubSeq(ref, Len(ref) - 1, Len(ref)) = DefaultTag

\* ------------------------------------------------------------------------
\* C22: the value handed to Resolve is the tag or digest of the normalized
\* locator and holds nothing of the host or of the repository path.
\* ------------------------------------------------------------------------
C22_ResolvesTrailingTag ==
    lpc = "resolve" =>
        /\ ~contains(tag, <<"/">>)
        /\ HasTagOrDigest(ref) => tag = TagOrDigest(ref)

\* ------------------------------------------------------------------------
\* C23: when the classification passes without the legacy fallback, the
\* download set holds layers of the provider, assets and current-platform
\* binary media types only, in this order of roles and so each role at most
\* once; every role that the manifest has a layer for is in it, with the
\* layer the loop identified (the last of that media type).
\* ------------------------------------------------------------------------
RoleRank(mt) ==
    IF mt = ProviderMediaType THEN 1
    ELSE IF mt = AssetsMediaType THEN 2
    ELSE IF mt = binaryMediaType THEN 3
    ELSE 0

C23_DownloadSetIsTheRoles ==
    (ClassifyPassed /\ ~legacyFallback) =>
        /\ \A k \in 1..Len(layersToDownload) :
              RoleRank(manifest[layersToDownload[k]]) > 0
        /\ \A j, k \in 1..Len(layersToDownload) :
              j < k => RoleRank(manifest[layersToDownload[j]])
                         < RoleRank(manifest[layersToDownload[k]])
        /\ \A mt \in {ProviderMediaType, AssetsMediaType, binaryMediaType} :
              LayersOf(mt) # {} =>
                \E k \in 1..Len(layersToDownload) :
                    /\ layersToDownload[k] \in LayersOf(mt)
                    /\ \A i \in LayersOf(mt) : i <= layersToDownload[k]

\* a manifest with two provider layers whose binary layer comes first
C23_Witness ==
    /\ ClassifyPassed
    /\ ~legacyFallback
    /\ Cardinality(LayersOf(ProviderMediaType)) = 2
    /\ manifest[1] = binaryMediaType
    /\ Len(layersToDownload) = 2
    /\ layersToDownload[2] = 1
    /\ \E i \in 1..Len(manifest) : manifest[i] = GenericMediaType

\* ------------------------------------------------------------------------
\* C24: an extraction that succeeds on a fresh installation root does not
\* fail on a root that holds earlier content, and when it has succeeded
\* every file the layer writes has the bytes and the permissions it has
\* after an extraction on a fresh root.
\* ------------------------------------------------------------------------
C24_RetryOverwrites ==
    [][Extracted =>
        LET fresh == extractLayerContent(xp, RootOnly)
            here == extractLayerContent(xp, fs)
        IN  ~fresh.err =>
              /\ ~here.err
              /\ ~xerr' =>
                    \A q \in Paths :
                       fresh.fs[q].t = "file" => fs'[q] = fresh.fs[q]]_vars

\* ------------------------------------------------------------------------
\* C25: while a worker fetches a layer, the transfer is read through a
\* progressTracker that reports under the key of that layer's record.
\* ------------------------------------------------------------------------
C25_FetchIsTracked ==
    \A w \in Workers :
        wpc[w] = "fetching" =>
            /\ tracker[w].state = "reading"
            /\ tracker[w].key = wlayer[w]

\* ------------------------------------------------------------------------
\* C26: the status of a layer's record moves one step at a time along
\* Downloading, Downloaded, Processing, Restored and never back.  A record
\* becomes Downloaded only while the worker that holds the layer has
\* fetched it successfully, and Restored only after the layer's extraction
\* and while no extraction has failed; no layer is fetched or extracted a
\* second time, so a layer whose fetch failed stays out of Downloaded,
\* Processing and Restored, and one whose extraction failed out of Restored.
\* ------------------------------------------------------------------------
StatusRank(st) ==
    CASE st = "absent" -> 0
      [] st = "Downloading" -> 1
      [] st = "Downloaded" -> 2
      [] st = "Processing" -> 3
      [] st = "Restored" -> 4

Becomes(l, st) == progress'[l].status = st /\ progress[l].status # st

C27_DequeuedInOrder ==
    /\ \A i \in 1..Len(manifest) : fetched[i] <= 1
    /\ \A k \in 1..Len(layersToDownload) :
          fetched[layersToDownload[k]] = 1 =>
             \A j \in 1..(k - 1) : fetched[layersToDownload[j]] = 1
    /\ \A i \in 1..Len(manifest) :
          fetched[i] = 1 => i \in SeqToSet(layersToDownload)
    /\ \A v, w \in Workers : (v # w /\ wlayer[v] # 0) => wlayer[v] # wlayer[w]

\* the second worker holds the first task and the first worker the second
\* one, while a third task waits in the queue
C27_Witness ==
    /\ Len(layersToDownload) = 3
    /\ wlayer[2] = layersToDownload[1]
    /\ wlayer[1] = layersToDownload[2]
    /\ jobs = <<layersToDownload[3]>>
    /\ fetched[layersToDownload[3]] = 0

\* ------------------------------------------------------------------------
\* C28: when the finalizer has run and the install succeeds, bin and assets
\* are directories of the root, there is no directory oci, and every file
\* that was under oci/bin or oci/assets is a file with the same bytes at
\* the same relative path under bin or assets.
\* ------------------------------------------------------------------------
Finalized == cpc = "finalize" /\ cpc' = "done" /\ result' = "ok"
\* the files under oci/bin and oci/assets of a root that has the directory oci
NestedFiles ==
    {q \in Paths : /\ Len(q) >= 3
                   /\ q[1] = "oci"
                   /\ q[2] \in {"bin", "assets"}
                   /\ fs[q].t = "file"
                   /\ fs[<<"oci">>].t = "dir"}

C28_CanonicalLayout ==
    [][Finalized =>
        /\ fs'[<<"bin">>].t = "dir"
        /\ fs'[<<"assets">>].t = "dir"
        /\ fs'[<<"oci">>].t # "dir"
        /\ \A q \in NestedFiles :
              /\ fs'[Tail(q)].t = "file"
              /\ fs'[Tail(q)].data = fs[q].data]_vars

\* ------------------------------------------------------------------------
\* C29: every file the finalizer has copied out of oci/bin or oci/assets
\* has the permission bits of its source file, whether the destination
\* was absent or an existing file; the binary the finalizer makes
\* executable afterwards is left out.
\* ------------------------------------------------------------------------
C29_CopyKeepsPermissions ==
    [][Finalized =>
        \A q \in NestedFiles :
           (fs'[Tail(q)].t = "file" /\ fs'[Tail(q)].data = fs[q].data
              /\ Tail(q) # binPath'.path)
             => fs'[Tail(q)].mode = Perm(fs[q].mode)]_vars

\* ------------------------------------------------------------------------
\* C30: a run of render draws the line of the layer whose download started
\* last whenever that layer is in Downloading status, and whatever layer it
\* draws is in Downloading status.
\* ------------------------------------------------------------------------
RenderRuns == rpc = "in" /\ rpc' = "select"

C30_RendersMostRecentLayer ==
    [][RenderRuns =>
        /\ (lastStarted # 0 /\ progress[lastStarted].status = "Downloading")
              => drawn' = lastStarted
        /\ drawn' # 0 => progress[drawn'].status = "Downloading"]_vars

\* ------------------------------------------------------------------------
\* C31: the handler is chosen once, by what standard output is: the text
\* handler whenever standard output is not a terminal (a pipe or a file),
\* the TTY handler only when it is a terminal; the choice is never changed.
\* ------------------------------------------------------------------------
C31_SelectedByTerminal ==
    /\ selected = "tty" => stdout.device = "terminal"
    /\ (selected # "none" /\ stdout.device # "terminal") => selected = "text"

\* ------------------------------------------------------------------------
\* C36: every layer has a record of its own.  A call for one layer leaves
\* the record of every layer with another digest as it was (not created,
\* not replaced, not changed), in both handlers, and a call adds a record
\* only when it starts a download, and then one record.
\* ------------------------------------------------------------------------
NoNode == [Descriptor |-> NoDesc, Status |-> "absent", BytesRead |-> 0]
\* the record the handler h holds for the layer d
RecordOf(h, d) ==
    IF digestStr(d) \in DOMAIN h.progress THEN h.progress[digestStr(d)]
    ELSE NoNode
\* the call e is made for the layer d
IsFor(e, d) ==
    IF e.op = "UpdateProgress" THEN e.digest \in {d.digest, digestStr(d)}
    ELSE e.desc.digest = d.digest
Records(h) == Cardinality(DOMAIN h.progress)

C36_OwnRecordPerLayer ==
    [][selected # "none" =>
          /\ \A d \in Descs : \A kind \in {"tty", "text"} :
                ~IsFor(event', d)
                   => RecordOf(handlers'[kind], d) = RecordOf(handlers[kind], d)
          /\ \A kind \in {"tty", "text"} :
                /\ Records(handlers'[kind]) <= Records(handlers[kind]) + 1
                /\ Records(handlers'[kind]) > Records(handlers[kind])
                      => event'.op = "OnNodeDownloading"]_vars

\* ------------------------------------------------------------------------
\* C37: the two handlers are interchangeable with respect to state.  Given
\* the same calls, they hold records under the same keys, with the same
\* status and bytesRead, after every call; and a call other than
\* OnNodeDownloading whose key has no record changes no record of either.
\* ------------------------------------------------------------------------
\* status and bytesRead of every record of the handler h
StateOf(h) ==
    [k \in DOMAIN h.progress |->
        [Status |-> h.progress[k].Status, BytesRead |-> h.progress[k].BytesRead]]
\* the key the call e looks up
KeyOf(e) == IF e.op = "UpdateProgress" THEN e.digest ELSE digestStr(e.desc)

C37_HandlersAgree ==
    [][selected # "none" =>
          /\ StateOf(handlers'.tty) = StateOf(handlers'.text)
          /\ \A kind \in {"tty", "text"} :
                (event'.op # "OnNodeDownloading"
                   /\ KeyOf(event') \notin DOMAIN handlers[kind].progress)
                   => handlers'[kind].progress = handlers[kind].progress]_vars

\* both handlers have taken a layer to Restored with bytes counted while
\* another layer is still downloading, and the call made last was for a
\* key without a record
C37_Witness ==
    /\ selected # "none"
    /\ \E k1, k2 \in DOMAIN handlers.tty.progress :
          /\ handlers.tty.progress[k1].Status = "Restored"
          /\ handlers.tty.progress[k1].BytesRead = 2
          /\ handlers.text.progress[k2].Status = "Downloading"
    /\ handlers.tty.currentNode = <<>>
    /\ event.op = "UpdateProgress"
    /\ event.digest \notin DOMAIN handlers.text.progress

\* ------------------------------------------------------------------------
\* C32: the content of the installation root does not depend on the order
\* in which the fetches complete.  When every layer of the download set has
\* been extracted, the root is what extracting the layers one after the
\* other in the order of the download set gives (that order is one of the
\* completion orders), in normal and in legacy mode; the config blob and
\* the finalization that follow work on that root alone.
\* ------------------------------------------------------------------------
RECURSIVE ExtractInOrder(_, _, _)
ExtractInOrder(ls, k, f) ==
    IF k > Len(ls) THEN f
    ELSE ExtractInOrder(ls, k + 1,
                        extractLayerContent(Blob(manifest[ls[k]], ls[k]), f).fs)

C32_OrderIndependent ==
    cpc = "config" => fs = ExtractInOrder(layersToDownload, 1, RootOnly)

\* ------------------------------------------------------------------------
\* C33: the config blob does not replace what the layers wrote.  After a
\* successful installation in which a layer of the download set wrote
\* thin.provider.yaml or bin/entrypoint, that file holds the bytes of a
\* layer of the download set, whatever the config blob was.
\* ------------------------------------------------------------------------
\* the layers of the download set whose extraction writes the file p
WritersOf(p) ==
    {l \in SeqToSet(layersToDownload) :
        extractLayerContent(Blob(manifest[l], l), RootOnly).fs[p].t = "file"}

C33_ConfigKeepsLayerFiles ==
    (cpc = "done" /\ result = "ok")
       => \A p \in {<<"thin.provider.yaml">>, <<"bin", "entrypoint">>} :
             WritersOf(p) # {}
                => /\ fs[p].t = "file"
                   /\ \E l \in SeqToSet(layersToDownload) : fs[p].data = <<"layer", l>>

\* ------------------------------------------------------------------------
\* C34: once Close has been called on the handler, no goroutine calls a
\* lifecycle method of it any more, whether PullProviderOCI returns nil or
\* an error.
\* ------------------------------------------------------------------------
\* the deferred handler.Close() has begun
CloseCalled == cpc = "closewait" \/ hstate = "closed"

C34_NoCallAfterClose ==
    [][CloseCalled =>
          \A t \in Callers : hcall'[t].pc = "lock" => hcall[t].pc = "lock"]_vars

\* ------------------------------------------------------------------------
\* C35: the finalizer loses no extracted data.  Every file under the nested
\* oci directory that finalization deletes is, after finalization, in the
\* installation root under the same relative path with the same bytes:
\* also when copying a subtree fails, and for files of oci that are not
\* under its bin or assets.
\* ------------------------------------------------------------------------
\* the files under oci that the step deletes
DeletedNested ==
    {q \in Paths : /\ Len(q) >= 2
                   /\ q[1] = "oci"
                   /\ fs[q].t = "file"
                   /\ fs'[q].t = "none"}

C35_NoDataLost ==
    [][cpc = "finalize" =>
          \A q \in DeletedNested :
             /\ fs'[Tail(q)].t = "file"
             /\ fs'[Tail(q)].data = fs[q].data]_vars

====
